---- MODULE Spec2Model ----
(***************************************************************************)
(* State-machine model of the CD/CPL spectrometer controller               *)
(* (src/controller_new.py, with the lock-in driver src/mfli.py).           *)
(*                                                                         *)
(* Threads of the program:                                                 *)
(*   GUI     the Qt event loop: start_spec, abort_measurement,             *)
(*           disconnect_devices, cal_phaseoffset_start, timers             *)
(*   MON     monit_osc_loop (oscilloscope / safety monitor)                *)
(*   Wk(w)   the w-th sweep worker running record_spec                     *)
(*   MonoiT(c), MonoiiT(c)   the two move threads move_nm starts for       *)
(*           caller c (0 is the GUI, w > 0 is sweep worker w)              *)
(*                                                                         *)
(* Voltages are integers in units of 2 nV, so that 2.95 V and 0.95 * 3 V   *)
(* fit TLC's integers and the tolerance of math.isclose stays visible.     *)
(* PMT control voltages are in mV.                                         *)
(*                                                                         *)
(* Wavelengths are Python floats (float(edt.text()), lines 714-716).  The  *)
(* model keeps binary floating point with round-to-nearest-even, in a      *)
(* narrower format: MantBits significant bits, written as integers in      *)
(* units of 2^-FracBits nm.                                                *)
(***************************************************************************)
EXTENDS Integers, Sequences, FiniteSets, TLC

(***************************************************************************)
(* Bounds of the model.                                                    *)
(***************************************************************************)
MaxSweeps == 2
MaxFaults == 1
MaxPolls == 5
MonPolls == 6
\* the PMT control voltage (mV) found on the lock-in output by init_devices
PmtWorking == 800
\* the floating-point format of the wavelengths
MantBits == 8
FracBits == 7

(***************************************************************************)
(* Program constants.                                                      *)
(***************************************************************************)
shutdown_threshold == 1475000000
max_volt_hist_length == 75
MaxTries == 5
RangeWindow == 5
PmtWindow == 3
pmt_high_limit == 1100
pmt_low_limit == 0

Devices == {"pem", "monoi", "monoii", "lockin_daq", "lockin_osc"}

\* input ranges the lock-in can report, 1.0 V and 3.0 V
Ranges == {500000000, 1500000000}
DefaultRange == 1500000000

\* scope_data[0] when read_scope found no wave data
NaNV == -1

Workers == 1..MaxSweeps
Callers == 0..MaxSweeps

Free == <<"free", 0>>
GUI == <<"gui", 0>>
MON == <<"mon", 0>>
Wk(w) == <<"spec", w>>
MonoiT(c) == <<"monoi", c>>
MonoiiT(c) == <<"monoii", c>>

VARIABLES
    \* Controller attributes
    initialized, acquisition_running, cal_running, cal_collecting,
    stop_spec_trigger, stop_osc_trigger, stop_cal_trigger,
    spec_thread, lock, enabled, dialog_open,
    \* device state
    pmt_volt, signal_range, cbx_range, extref_active, pem_active, path_nm,
    connected,
    \* monit_osc_loop
    mon_pc, max_volt_history, max_volt, avg_is_nan,
    range_limit_reached, pmt_limit_reached, polls,
    \* record_spec, one instance per started sweep
    pc, req, rep_i, curr_nm, try_j, success, data_ok, curr_spec,
    \* move_nm threads
    mono, mv_target,
    \* GUI thread
    gui_pc, gui_arg, reactivate_timer, cbx_pending,
    \* device faults injected so far
    faults,
    \* observation of the run
    unlocked_calls, range_events, pmt_events, undisturbed, nreads, zeroed,
    hard_fail, tail_log,
    \* phase offset calibration: the dialog, the Controller the dialog
    \* creates for itself, and lockin_daq.phaseoffset of the device
    wiz, dctl, phaseoffset,
    \* the spectra kept by record_spec: avg_spec, the spectra of the
    \* repetitions (dfall_spectra), the saved files, and the points handed to
    \* add_data_to_avg_spec so far
    avg_spec, dfall_spectra, saved, ingested

cal_vars == <<wiz, dctl, phaseoffset>>
proc_vars == <<avg_spec, dfall_spectra, saved, ingested>>
ctrl_vars == <<initialized, acquisition_running, cal_running, cal_collecting,
               stop_spec_trigger, stop_osc_trigger, stop_cal_trigger,
               spec_thread, enabled, dialog_open, cal_vars, proc_vars>>
ctrl_rest == <<initialized, acquisition_running, cal_running, cal_collecting,
               stop_spec_trigger, stop_osc_trigger, stop_cal_trigger,
               spec_thread, enabled, dialog_open, cal_vars, avg_spec,
               dfall_spectra, saved>>
dev_vars == <<pmt_volt, signal_range, cbx_range, extref_active, pem_active,
              path_nm, connected>>
mon_vars == <<mon_pc, max_volt_history, max_volt, avg_is_nan,
              range_limit_reached, pmt_limit_reached, polls>>
wk_vars == <<pc, req, rep_i, curr_nm, try_j, success, data_ok, curr_spec>>
mv_vars == <<mono, mv_target>>
gui_vars == <<gui_pc, gui_arg, reactivate_timer, cbx_pending>>
abort_obs == <<undisturbed>>
wk_obs == <<nreads, zeroed, hard_fail, tail_log>>
obs_vars == <<unlocked_calls, range_events, pmt_events, abort_obs, wk_obs>>
vars == <<ctrl_vars, lock, dev_vars, mon_vars, wk_vars, mv_vars, gui_vars,
          faults, obs_vars>>

(***************************************************************************)
(* Helpers                                                                 *)
(***************************************************************************)
Abs(x) == IF x < 0 THEN -x ELSE x
Max2(a, b) == IF a >= b THEN a ELSE b

\* a thread that is inside record_spec
Alive(w) == pc[w] \notin {"idle", "done", "dead"}

\* record_spec from line 960 ('Returning to start wavelength') on
ReturnPcs == {"home_mod_daq_acq", "home_mod_daq_call", "home_mod_pem_acq",
              "home_mod_pem_call", "home_mv_start", "home_mv_pem_acq",
              "home_mv_pem_call", "home_mv_wait", "rs_clear"}

\* Controller.set_active_components: the enabled state of the widgets
set_active_components(init, acq, calr, calc) ==
    [btn_start    |-> ~acq /\ init /\ ~calr,
     btn_abort    |-> init /\ acq /\ ~calr,
     btn_cal      |-> ~acq /\ init /\ ~calr,
     signaltuning |-> ~acq /\ init /\ ~calc,
     btn_close    |-> init]

\* Controller.set_acquisition_running(b): the widgets after the call
EnabledAfterAcq(b) ==
    IF initialized
    THEN set_active_components(initialized, b, cal_running, cal_collecting)
    ELSE enabled

\* a device-driver call on device d made by thread t: remembered when t does
\* not hold d's lock
Touch(calls, d, t) == IF lock[d] = t THEN calls ELSE calls \cup {d}

\* Controller.abort_measurement followed by reactivate_after_abort.
\* timer: whether the QTimer.singleShot the call schedules will fire (it is
\* created in the calling thread: always for the GUI thread, unspecified for
\* a thread without an event loop).
AbortMeasurement(timer) ==
    /\ stop_spec_trigger' = TRUE
    /\ undisturbed' = [w \in Workers |-> FALSE]
    /\ IF spec_thread # 0 /\ Alive(spec_thread)
       THEN /\ reactivate_timer' = (reactivate_timer \/ timer)
            /\ UNCHANGED <<acquisition_running, enabled>>
       ELSE /\ acquisition_running' = FALSE
            /\ enabled' = EnabledAfterAcq(FALSE)
            /\ UNCHANGED reactivate_timer

NoAbort ==
    UNCHANGED <<stop_spec_trigger, undisturbed, reactivate_timer,
                acquisition_running, enabled>>

(***************************************************************************)
(* Safety monitor: Controller.monit_osc_loop                               *)
(***************************************************************************)
\* list.append: a history without a maximum length
AppendUnbounded(h, v) == Append(h, v)

\* collections.deque(maxlen=...).append
AppendHist(h, v) ==
    IF Len(h) < max_volt_hist_length THEN Append(h, v) ELSE Append(Tail(h), v)

\* h[-i]
FromEnd(h, i) == h[Len(h) + 1 - i]

\* math.isclose(a, b, abs_tol=1e-9) with the default rel_tol=1e-9:
\* |a-b| <= max(1e-9 * max(|a|,|b|), 1e-9 V).  In units of 2 nV the
\* absolute tolerance is half a unit, which an integer difference meets
\* only when it is 0.
IsClose(a, b) ==
    LET d == Abs(a - b)
        m == Max2(Abs(a), Abs(b))
    IN  d = 0 \/ d <= m \div 1000000000

\* v >= 0.95 * range (every range of the model is a multiple of 20 units)
AtLeast95(v, range) == v >= (range \div 20) * 19

\* lines 1397-1401: for i in range(2, 6)
RangeLimitReached(h, mv, range) ==
    \A i \in 2..RangeWindow :
        IsClose(FromEnd(h, i), mv) /\ AtLeast95(FromEnd(h, i), range)

\* lines 1404-1406: for i in range(1, 4)
PmtLimitReached(h) ==
    \A i \in 1..PmtWindow : FromEnd(h, i) >= shutdown_threshold

\* line 1396: both checks are made only under len(max_volt_history) >= 5
HazardsChecked(h) == Len(h) >= RangeWindow

\* line 1382: while not self.stop_osc_trigger, and line 1420
MonLoop ==
    /\ mon_pc = "mon_loop"
    /\ mon_pc' = IF stop_osc_trigger THEN "mon_stop_acq" ELSE "mon_acq"
    /\ UNCHANGED <<ctrl_vars, lock, dev_vars, max_volt_history, max_volt,
                   avg_is_nan, range_limit_reached, pmt_limit_reached, polls,
                   wk_vars, mv_vars, gui_vars, faults, obs_vars>>

\* line 1385
MonAcq ==
    /\ mon_pc = "mon_acq"
    /\ lock["lockin_osc"] = Free
    /\ lock' = [lock EXCEPT !["lockin_osc"] = MON]
    /\ mon_pc' = "mon_read"
    /\ UNCHANGED <<ctrl_vars, dev_vars, max_volt_history, max_volt,
                   avg_is_nan, range_limit_reached, pmt_limit_reached, polls,
                   wk_vars, mv_vars, gui_vars, faults, obs_vars>>

\* lines 1386-1406: one sample v is read, the lock released, the sample
\* stored and the two hazard conditions evaluated
MonRead(samples, maxpolls) ==
    /\ mon_pc = "mon_read"
    /\ polls < maxpolls
    /\ \E v \in samples :
        LET h  == IF v = NaNV THEN max_volt_history
                  ELSE AppendHist(max_volt_history, v)
            ck == v # NaNV /\ HazardsChecked(h)
            rl == ck /\ RangeLimitReached(h, v, signal_range)
            pl == ck /\ PmtLimitReached(h)
        IN  /\ max_volt' = v
            /\ avg_is_nan' = (v = NaNV)
            /\ max_volt_history' = h
            /\ range_limit_reached' = rl
            /\ pmt_limit_reached' = pl
            /\ range_events' = range_events + (IF rl THEN 1 ELSE 0)
            /\ pmt_events' = pmt_events + (IF pl THEN 1 ELSE 0)
            /\ mon_pc' = IF rl THEN "mon_ar_acq"
                         ELSE IF pl THEN "mon_pmt_acq" ELSE "mon_loop"
    /\ polls' = polls + 1
    /\ unlocked_calls' = Touch(unlocked_calls, "lockin_osc", MON)
    /\ lock' = [lock EXCEPT !["lockin_osc"] = Free]
    /\ UNCHANGED <<ctrl_vars, dev_vars, wk_vars, mv_vars, gui_vars, faults,
                   abort_obs, wk_obs>>

\* read_scope raises: the thread ends inside the locked section
MonReadFault ==
    /\ mon_pc = "mon_read"
    /\ faults < MaxFaults
    /\ faults' = faults + 1
    /\ mon_pc' = "mon_dead"
    /\ unlocked_calls' = Touch(unlocked_calls, "lockin_osc", MON)
    /\ UNCHANGED <<ctrl_vars, lock, dev_vars, max_volt_history, max_volt,
                   avg_is_nan, range_limit_reached, pmt_limit_reached, polls,
                   wk_vars, mv_vars, gui_vars, range_events, pmt_events,
                   abort_obs, wk_obs>>

\* set_auto_range, line 1340
MonAutoRangeAcq ==
    /\ mon_pc = "mon_ar_acq"
    /\ lock["lockin_daq"] = Free
    /\ lock' = [lock EXCEPT !["lockin_daq"] = MON]
    /\ mon_pc' = "mon_ar_call"
    /\ UNCHANGED <<ctrl_vars, dev_vars, max_volt_history, max_volt,
                   avg_is_nan, range_limit_reached, pmt_limit_reached, polls,
                   wk_vars, mv_vars, gui_vars, faults, obs_vars>>

\* set_auto_range, lines 1341-1343: the lock-in picks a range r; writing it
\* into the combo box raises currentIndexChanged when the entry changes, which
\* reaches change_cbx_range through the GUI thread's event queue
MonAutoRangeCall ==
    /\ mon_pc = "mon_ar_call"
    /\ \E r \in Ranges :
        /\ signal_range' = r
        /\ cbx_range' = r
        /\ cbx_pending' = (cbx_pending \/ r # cbx_range)
    /\ unlocked_calls' = Touch(unlocked_calls, "lockin_daq", MON)
    /\ lock' = [lock EXCEPT !["lockin_daq"] = Free]
    /\ mon_pc' = "mon_ar_abort"
    /\ UNCHANGED <<ctrl_vars, pmt_volt, extref_active, pem_active, path_nm,
                   connected, max_volt_history, max_volt, avg_is_nan,
                   range_limit_reached, pmt_limit_reached, polls, wk_vars,
                   mv_vars, gui_pc, gui_arg, reactivate_timer, faults,
                   range_events, pmt_events, abort_obs, wk_obs>>

\* set_input_range raises inside set_auto_range: no handler, the monitor
\* thread ends with lockin_daq_lock held
MonAutoRangeFault ==
    /\ mon_pc = "mon_ar_call"
    /\ faults < MaxFaults
    /\ faults' = faults + 1
    /\ mon_pc' = "mon_dead"
    /\ unlocked_calls' = Touch(unlocked_calls, "lockin_daq", MON)
    /\ UNCHANGED <<ctrl_vars, lock, dev_vars, max_volt_history, max_volt,
                   avg_is_nan, range_limit_reached, pmt_limit_reached, polls,
                   wk_vars, mv_vars, gui_vars, range_events, pmt_events,
                   abort_obs, wk_obs>>

\* line 1410: the test of acquisition_running; the log of lines 1411-1413
\* follows before the call
MonAutoRangeAbort ==
    /\ mon_pc = "mon_ar_abort"
    /\ mon_pc' = IF acquisition_running THEN "mon_ar_abort_call"
                 ELSE IF pmt_limit_reached THEN "mon_pmt_acq" ELSE "mon_loop"
    /\ NoAbort
    /\ UNCHANGED <<initialized, cal_running, cal_collecting, stop_osc_trigger,
                   stop_cal_trigger, spec_thread, dialog_open, cal_vars, proc_vars, lock,
                   dev_vars, max_volt_history, max_volt, avg_is_nan,
                   range_limit_reached, pmt_limit_reached, polls, wk_vars,
                   mv_vars, gui_pc, gui_arg, cbx_pending, faults,
                   unlocked_calls, range_events, pmt_events, wk_obs>>

\* line 1414: abort_measurement()
MonAutoRangeAbortCall ==
    /\ mon_pc = "mon_ar_abort_call"
    /\ \E timer \in BOOLEAN : AbortMeasurement(timer)
    /\ mon_pc' = IF pmt_limit_reached THEN "mon_pmt_acq" ELSE "mon_loop"
    /\ UNCHANGED <<initialized, cal_running, cal_collecting, stop_osc_trigger,
                   stop_cal_trigger, spec_thread, dialog_open, cal_vars, proc_vars, lock,
                   dev_vars, max_volt_history, max_volt, avg_is_nan,
                   range_limit_reached, pmt_limit_reached, polls, wk_vars,
                   mv_vars, gui_pc, gui_arg, cbx_pending, faults,
                   unlocked_calls, range_events, pmt_events, wk_obs>>

\* rescue_pmt -> set_PMT_voltage(0.0), line 1321
MonPmtAcq ==
    /\ mon_pc = "mon_pmt_acq"
    /\ lock["lockin_daq"] = Free
    /\ lock' = [lock EXCEPT !["lockin_daq"] = MON]
    /\ mon_pc' = "mon_pmt_call"
    /\ UNCHANGED <<ctrl_vars, dev_vars, max_volt_history, max_volt,
                   avg_is_nan, range_limit_reached, pmt_limit_reached, polls,
                   wk_vars, mv_vars, gui_vars, faults, obs_vars>>

\* MFLI.set_PMT_voltage: the output is written only for a value in
\* [pmt_low_limit, pmt_high_limit]
PmtAfterSet(volt) ==
    IF volt <= pmt_high_limit /\ volt >= pmt_low_limit THEN volt ELSE pmt_volt

\* set_PMT_voltage, lines 1322-1325
MonPmtCall ==
    /\ mon_pc = "mon_pmt_call"
    /\ pmt_volt' = PmtAfterSet(0)
    /\ unlocked_calls' = Touch(unlocked_calls, "lockin_daq", MON)
    /\ lock' = [lock EXCEPT !["lockin_daq"] = Free]
    /\ mon_pc' = "mon_pmt_abort"
    /\ UNCHANGED <<ctrl_vars, signal_range, cbx_range, extref_active,
                   pem_active, path_nm, connected, max_volt_history, max_volt,
                   avg_is_nan, range_limit_reached, pmt_limit_reached, polls,
                   wk_vars, mv_vars, gui_vars, faults, range_events,
                   pmt_events, abort_obs, wk_obs>>

\* the driver call raises: set_PMT_voltage's except clause logs and returns,
\* the release on line 1323 is skipped
MonPmtFault ==
    /\ mon_pc = "mon_pmt_call"
    /\ faults < MaxFaults
    /\ faults' = faults + 1
    /\ unlocked_calls' = Touch(unlocked_calls, "lockin_daq", MON)
    /\ mon_pc' = "mon_pmt_abort"
    /\ UNCHANGED <<ctrl_vars, lock, dev_vars, max_volt_history, max_volt,
                   avg_is_nan, range_limit_reached, pmt_limit_reached, polls,
                   wk_vars, mv_vars, gui_vars, range_events, pmt_events,
                   abort_obs, wk_obs>>

\* line 1417: the test of acquisition_running
MonPmtAbort ==
    /\ mon_pc = "mon_pmt_abort"
    /\ mon_pc' = IF acquisition_running THEN "mon_pmt_abort_call"
                 ELSE "mon_loop"
    /\ NoAbort
    /\ UNCHANGED <<initialized, cal_running, cal_collecting, stop_osc_trigger,
                   stop_cal_trigger, spec_thread, dialog_open, cal_vars, proc_vars, lock,
                   dev_vars, max_volt_history, max_volt, avg_is_nan,
                   range_limit_reached, pmt_limit_reached, polls, wk_vars,
                   mv_vars, gui_pc, gui_arg, cbx_pending, faults,
                   unlocked_calls, range_events, pmt_events, wk_obs>>

\* line 1418: abort_measurement()
MonPmtAbortCall ==
    /\ mon_pc = "mon_pmt_abort_call"
    /\ \E timer \in BOOLEAN : AbortMeasurement(timer)
    /\ mon_pc' = "mon_loop"
    /\ UNCHANGED <<initialized, cal_running, cal_collecting, stop_osc_trigger,
                   stop_cal_trigger, spec_thread, dialog_open, cal_vars, proc_vars, lock,
                   dev_vars, max_volt_history, max_volt, avg_is_nan,
                   range_limit_reached, pmt_limit_reached, polls, wk_vars,
                   mv_vars, gui_pc, gui_arg, cbx_pending, faults,
                   unlocked_calls, range_events, pmt_events, wk_obs>>

\* line 1421
MonStopAcq ==
    /\ mon_pc = "mon_stop_acq"
    /\ lock["lockin_osc"] = Free
    /\ lock' = [lock EXCEPT !["lockin_osc"] = MON]
    /\ mon_pc' = "mon_stop_call"
    /\ UNCHANGED <<ctrl_vars, dev_vars, max_volt_history, max_volt,
                   avg_is_nan, range_limit_reached, pmt_limit_reached, polls,
                   wk_vars, mv_vars, gui_vars, faults, obs_vars>>

\* lines 1422-1425
MonStopCall ==
    /\ mon_pc = "mon_stop_call"
    /\ unlocked_calls' = Touch(unlocked_calls, "lockin_osc", MON)
    /\ lock' = [lock EXCEPT !["lockin_osc"] = Free]
    /\ stop_osc_trigger' = FALSE
    /\ mon_pc' = "mon_done"
    /\ UNCHANGED <<initialized, acquisition_running, cal_running,
                   cal_collecting, stop_spec_trigger, stop_cal_trigger,
                   spec_thread, enabled, dialog_open, cal_vars, proc_vars, dev_vars,
                   max_volt_history, max_volt, avg_is_nan,
                   range_limit_reached, pmt_limit_reached, polls, wk_vars,
                   mv_vars, gui_vars, faults, range_events, pmt_events,
                   abort_obs, wk_obs>>

(***************************************************************************)
(* Sweep worker: Controller.record_spec, one thread per started sweep      *)
(***************************************************************************)
wk_rest == <<req, rep_i, curr_nm, try_j, success, data_ok, curr_spec>>
mon_obs == <<range_events, pmt_events>>

(***************************************************************************)
(* Floating-point wavelengths                                              *)
(***************************************************************************)
RECURSIVE Pow2(_)
Pow2(n) == IF n = 0 THEN 1 ELSE 2 * Pow2(n - 1)

\* the exponent of the last place of a float of magnitude a
RECURSIVE LastPlace(_)
LastPlace(a) == IF a < Pow2(MantBits) THEN 0 ELSE 1 + LastPlace(a \div 2)

\* the float nearest to the number n, ties to the even mantissa
RoundFloat(n) ==
    LET a    == Abs(n)
        u    == Pow2(LastPlace(a))
        q    == a \div u
        r    == a % u
        up   == 2 * r > u \/ (2 * r = u /\ q % 2 = 1)
        m    == IF up THEN q + 1 ELSE q
    IN  IF n < 0 THEN -(m * u) ELSE m * u

\* float.__add__ and float.__sub__
FAdd(a, b) == RoundFloat(a + b)
FSub(a, b) == RoundFloat(a - b)

\* float(text) for a text of t tenths of a nm (t >= 0): the float nearest to
\* t / 10
FromTenths(t) ==
    LET x10 == t * Pow2(FracBits)
        u   == Pow2(LastPlace(x10 \div 10))
        lo  == ((x10 \div 10) \div u) * u
        hi  == lo + u
        dlo == x10 - 10 * lo
        dhi == 10 * hi - x10
    IN  IF dlo < dhi \/ (dlo = dhi /\ (lo \div u) % 2 = 0) THEN lo ELSE hi

\* float(text) for a whole number of nm
Nm(x) == FromTenths(10 * x)

\* the sweeps the user can ask for: pem_off is the state of the 'PEM off'
\* check box
Requests ==
    {r \in [start : {Nm(1)}, end : {Nm(1), Nm(2)}, step : {Nm(1)},
            reps : {1, 2}, pem_off : BOOLEAN] : r.end # r.start \/ r.reps = 1}

\* lines 779-783
Inc(r) == IF r.start > r.end THEN -r.step ELSE r.step

\* line 818: the condition of the wavelength loop without the abort flag
InRange(r, nm) ==
    \/ Inc(r) > 0 /\ nm < r.end
    \/ Inc(r) < 0 /\ nm > r.end

\* a retry loop that gives up one read early
RetryGuard_early(j, succ, stop) == j < MaxTries - 1 /\ ~succ /\ ~stop

\* line 830: the condition of the retry loop
RetryGuard(j, succ, stop) == j < MaxTries /\ ~succ /\ ~stop

Goto(w, l) == pc' = [pc EXCEPT ![w] = l]

\* the arguments of a thread that has not been started or has ended
NoReq ==
    [start |-> 0, end |-> 0, step |-> 0, reps |-> 0, pem_off |-> FALSE]

wk_loc == <<req, rep_i, curr_nm, try_j, success>>

\* the thread of sweep worker w ends (l is "done" after the last statement,
\* "dead" after an exception): its arguments and locals are gone, and what
\* was observed about its run is dropped with them
EndThread(w, l) ==
    /\ pc' = [pc EXCEPT ![w] = l]
    /\ req' = [req EXCEPT ![w] = NoReq]
    /\ rep_i' = [rep_i EXCEPT ![w] = 0]
    /\ curr_nm' = [curr_nm EXCEPT ![w] = 0]
    /\ try_j' = [try_j EXCEPT ![w] = 0]
    /\ success' = [success EXCEPT ![w] = FALSE]
    /\ nreads' = [nreads EXCEPT ![w] = 0]
    /\ zeroed' = [zeroed EXCEPT ![w] = FALSE]
    /\ hard_fail' = [hard_fail EXCEPT ![w] = FALSE]
    /\ undisturbed' = [undisturbed EXCEPT ![w] = FALSE]
    /\ tail_log' = [tail_log EXCEPT ![w] = <<>>]

Release(d) == lock' = [lock EXCEPT ![d] = Free]

Logged(w, ev) ==
    tail_log' = IF ev = "" THEN tail_log
                ELSE [tail_log EXCEPT ![w] = Append(@, ev)]

\* <device>_lock.acquire() by sweep worker w: blocks until the lock is free
WkAcquire(w, at, d, nxt) ==
    /\ pc[w] = at
    /\ lock[d] = Free
    /\ lock' = [lock EXCEPT ![d] = Wk(w)]
    /\ Goto(w, nxt)
    /\ UNCHANGED <<ctrl_vars, dev_vars, mon_vars, wk_rest, mv_vars, gui_vars,
                   faults, obs_vars>>

\* a driver call of record_spec on device d raises where no handler
\* encloses it: the thread ends, the release after the call is never run
WkFault(w, at, d) ==
    /\ pc[w] = at
    /\ faults < MaxFaults
    /\ faults' = faults + 1
    /\ unlocked_calls' = Touch(unlocked_calls, d, Wk(w))
    /\ EndThread(w, "dead")
    /\ UNCHANGED <<ctrl_vars, lock, dev_vars, mon_vars, data_ok, curr_spec,
                   mv_vars, gui_vars, mon_obs>>

\* lines 760-765: set_dwell_time under the lock, then the interruptable
\* sleep of one dwell time
RsDwellAcq(w) == WkAcquire(w, "rs_dwell_acq", "lockin_daq", "rs_dwell_set")

RsDwellSet(w) ==
    /\ pc[w] = "rs_dwell_set"
    /\ unlocked_calls' = Touch(unlocked_calls, "lockin_daq", Wk(w))
    /\ Release("lockin_daq")
    /\ Goto(w, "pre_mod_daq_acq")
    /\ UNCHANGED <<ctrl_vars, dev_vars, mon_vars, wk_rest, mv_vars, gui_vars,
                   faults, mon_obs, abort_obs, wk_obs>>

\* set_modulation_active(b), lines 1250-1253
ModDaqCall(w, at, nxt, b) ==
    /\ pc[w] = at
    /\ extref_active' = b
    /\ unlocked_calls' = Touch(unlocked_calls, "lockin_daq", Wk(w))
    /\ Release("lockin_daq")
    /\ Goto(w, nxt)
    /\ UNCHANGED <<ctrl_vars, pmt_volt, signal_range, cbx_range, pem_active,
                   path_nm, connected, mon_vars, wk_rest, mv_vars, gui_vars,
                   faults, mon_obs, abort_obs, wk_obs>>

\* set_modulation_active(b), lines 1256-1258
ModPemCall(w, at, nxt, b, ev) ==
    /\ pc[w] = at
    /\ pem_active' = b
    /\ unlocked_calls' = Touch(unlocked_calls, "pem", Wk(w))
    /\ Release("pem")
    /\ Goto(w, nxt)
    /\ Logged(w, ev)
    /\ UNCHANGED <<ctrl_vars, pmt_volt, signal_range, cbx_range,
                   extref_active, path_nm, connected, mon_vars, wk_rest,
                   mv_vars, gui_vars, faults, mon_obs, abort_obs, nreads,
                   zeroed, hard_fail>>

\* line 788: set_modulation_active(pem_off == 0)
PreModDaqAcq(w) ==
    WkAcquire(w, "pre_mod_daq_acq", "lockin_daq", "pre_mod_daq_call")
PreModDaqCall(w) ==
    ModDaqCall(w, "pre_mod_daq_call", "pre_mod_pem_acq", ~req[w].pem_off)
PreModDaqFault(w) == WkFault(w, "pre_mod_daq_call", "lockin_daq")
PreModPemAcq(w) == WkAcquire(w, "pre_mod_pem_acq", "pem", "pre_mod_pem_call")
PreModPemCall(w) ==
    ModPemCall(w, "pre_mod_pem_call", "rs_outer", ~req[w].pem_off, "")
PreModPemFault(w) == WkFault(w, "pre_mod_pem_call", "pem")

\* lines 795-817: the head of the repetition loop.  When the loop is left,
\* start_nm is the only argument or local that record_spec still reads; the
\* others are dropped from the state.  ingested holds the calls of
\* add_data_to_avg_spec made in the repetition in progress.
RsOuter(w) ==
    /\ pc[w] = "rs_outer"
    /\ IF rep_i[w] < req[w].reps /\ ~stop_spec_trigger
       THEN /\ curr_spec' = <<>>
            /\ curr_nm' = [curr_nm EXCEPT ![w] = FSub(req[w].start, Inc(req[w]))]
            /\ Goto(w, "rs_inner")
            /\ UNCHANGED <<req, rep_i>>
       ELSE /\ req' = [req EXCEPT ![w] = [NoReq EXCEPT !.start = req[w].start]]
            /\ rep_i' = [rep_i EXCEPT ![w] = 0]
            /\ curr_nm' = [curr_nm EXCEPT ![w] = 0]
            /\ Goto(w, "rs_stop")
            /\ UNCHANGED curr_spec
    /\ ingested' = <<>>
    /\ UNCHANGED <<ctrl_rest, lock, dev_vars, mon_vars, try_j, success,
                   data_ok, mv_vars, gui_vars, faults, obs_vars>>

\* lines 818-821 and 826-828: the head of the wavelength loop; j and success
\* are locals of the thread, set here for the coming retry loop
RsInner(w) ==
    /\ pc[w] = "rs_inner"
    /\ IF InRange(req[w], curr_nm[w]) /\ ~stop_spec_trigger
       THEN /\ curr_nm' = [curr_nm EXCEPT ![w] = FAdd(@, Inc(req[w]))]
            /\ try_j' = [try_j EXCEPT ![w] = 0]
            /\ success' = [success EXCEPT ![w] = FALSE]
            /\ nreads' = [nreads EXCEPT ![w] = 0]
            /\ undisturbed' = [undisturbed EXCEPT ![w] = TRUE]
            /\ Goto(w, "lp_mv_start")
       ELSE /\ UNCHANGED <<curr_nm, try_j, success, nreads, undisturbed>>
            /\ Goto(w, "rs_after")
    /\ UNCHANGED <<ctrl_vars, lock, dev_vars, mon_vars, req, rep_i, data_ok,
                   curr_spec, mv_vars, gui_vars, faults, unlocked_calls,
                   mon_obs, zeroed, hard_fail, tail_log>>

\* move_nm(nm, move_pem) called by c, lines 1273-1278: nothing moves unless
\* the controller is initialized; else the two monochromator threads start
MoveStart(w, at, nm, move_pem, nxt_pem, nxt_wait, nxt_skip) ==
    /\ pc[w] = at
    /\ IF initialized
       THEN /\ mono' = [mono EXCEPT ![w] = [i |-> "want", ii |-> "want"]]
            /\ mv_target' = [mv_target EXCEPT ![w] = nm]
            /\ Goto(w, IF move_pem THEN nxt_pem ELSE nxt_wait)
       ELSE /\ UNCHANGED <<mono, mv_target>>
            /\ Goto(w, nxt_skip)
    /\ UNCHANGED <<ctrl_vars, lock, dev_vars, mon_vars, wk_rest, gui_vars,
                   faults, obs_vars>>

\* lines 1281-1283: pem.set_nm under pem_lock
MovePemCall(w, at, nxt) ==
    /\ pc[w] = at
    /\ path_nm' = [path_nm EXCEPT !.pem = mv_target[w]]
    /\ unlocked_calls' = Touch(unlocked_calls, "pem", Wk(w))
    /\ Release("pem")
    /\ Goto(w, nxt)
    /\ UNCHANGED <<ctrl_vars, pmt_volt, signal_range, cbx_range,
                   extref_active, pem_active, connected, mon_vars, wk_rest,
                   mv_vars, gui_vars, faults, mon_obs, abort_obs, wk_obs>>

\* lines 1286-1294: wait until neither monochromator thread is alive, then
\* the move delay
MoveWait(w, at, nxt, ev) ==
    /\ pc[w] = at
    /\ mono[w].i = "none"
    /\ mono[w].ii = "none"
    /\ mv_target' = [mv_target EXCEPT ![w] = 0]
    /\ Goto(w, nxt)
    /\ Logged(w, ev)
    /\ UNCHANGED <<ctrl_vars, lock, dev_vars, mon_vars, wk_rest, mono,
                   gui_vars, faults, unlocked_calls, mon_obs, abort_obs,
                   nreads, zeroed, hard_fail>>

\* monoi_move / monoii_move: the thread move_nm started for caller c
MonoDev(m) == IF m = "i" THEN "monoi" ELSE "monoii"
MonoT(c, m) == IF m = "i" THEN MonoiT(c) ELSE MonoiiT(c)

MonoAcq(c, m) ==
    /\ mono[c][m] = "want"
    /\ lock[MonoDev(m)] = Free
    /\ lock' = [lock EXCEPT ![MonoDev(m)] = MonoT(c, m)]
    /\ mono' = [mono EXCEPT ![c][m] = "hold"]
    /\ UNCHANGED <<ctrl_vars, dev_vars, mon_vars, wk_vars, mv_target,
                   gui_vars, faults, obs_vars>>

MonoCall(c, m) ==
    /\ mono[c][m] = "hold"
    /\ path_nm' = [path_nm EXCEPT ![MonoDev(m)] = mv_target[c]]
    /\ unlocked_calls' = Touch(unlocked_calls, MonoDev(m), MonoT(c, m))
    /\ Release(MonoDev(m))
    /\ mono' = [mono EXCEPT ![c][m] = "none"]
    /\ UNCHANGED <<ctrl_vars, pmt_volt, signal_range, cbx_range,
                   extref_active, pem_active, connected, mon_vars, wk_vars,
                   mv_target, gui_vars, faults, mon_obs, abort_obs, wk_obs>>

\* set_nm raises (Monochromator.set_nm gives up after its retries): the move
\* thread ends without the release
MonoFault(c, m) ==
    /\ mono[c][m] = "hold"
    /\ faults < MaxFaults
    /\ faults' = faults + 1
    /\ unlocked_calls' = Touch(unlocked_calls, MonoDev(m), MonoT(c, m))
    /\ mono' = [mono EXCEPT ![c][m] = "none"]
    /\ UNCHANGED <<ctrl_vars, lock, dev_vars, mon_vars, wk_vars, mv_target,
                   gui_vars, mon_obs, abort_obs, wk_obs>>

\* line 822: move_nm(curr_nm, pem_off == 0), and the settling sleep of
\* line 824
LpMoveStart(w) ==
    MoveStart(w, "lp_mv_start", curr_nm[w], ~req[w].pem_off,
              "lp_mv_pem_acq", "lp_mv_wait", "rs_try")
LpMovePemAcq(w) == WkAcquire(w, "lp_mv_pem_acq", "pem", "lp_mv_pem_call")
LpMovePemCall(w) == MovePemCall(w, "lp_mv_pem_call", "lp_mv_wait")
LpMovePemFault(w) == WkFault(w, "lp_mv_pem_call", "pem")
LpMoveWait(w) == MoveWait(w, "lp_mv_wait", "rs_try", "")

\* line 830: the head of the retry loop
RsTry(w) ==
    /\ pc[w] = "rs_try"
    /\ Goto(w, IF RetryGuard(try_j[w], success[w], stop_spec_trigger)
               THEN "rs_read_acq" ELSE "rs_check")
    /\ UNCHANGED <<ctrl_vars, lock, dev_vars, mon_vars, wk_rest, mv_vars,
                   gui_vars, faults, obs_vars>>

\* line 832
RsReadAcq(w) == WkAcquire(w, "rs_read_acq", "lockin_daq", "rs_read")

\* lines 834-836: read_data stores its result in the module-level name
\* data, which every sweep worker shares; ok is the 'success' of the result
RsRead(w) ==
    /\ pc[w] = "rs_read"
    /\ \E ok \in BOOLEAN :
        /\ data_ok' = ok
        /\ undisturbed' =
             IF ok THEN [v \in Workers |-> FALSE] ELSE undisturbed
    /\ nreads' = [nreads EXCEPT ![w] = @ + 1]
    /\ unlocked_calls' = Touch(unlocked_calls, "lockin_daq", Wk(w))
    /\ Release("lockin_daq")
    /\ Goto(w, "rs_read_done")
    /\ UNCHANGED <<ctrl_vars, dev_vars, mon_vars, req, rep_i, curr_nm, try_j,
                   success, curr_spec, mv_vars, gui_vars, faults, mon_obs,
                   zeroed, hard_fail, tail_log>>

RsReadFault(w) == WkFault(w, "rs_read", "lockin_daq")

\* lines 838-841
RsReadDone(w) ==
    /\ pc[w] = "rs_read_done"
    /\ success' = [success EXCEPT
                     ![w] = IF stop_spec_trigger THEN @ ELSE data_ok]
    /\ try_j' = [try_j EXCEPT ![w] = @ + 1]
    /\ Goto(w, "rs_try")
    /\ UNCHANGED <<ctrl_vars, lock, dev_vars, mon_vars, req, rep_i, curr_nm,
                   data_ok, curr_spec, mv_vars, gui_vars, faults, obs_vars>>

\* lines 843-845: the sweep aborts itself.  j and success are not read
\* again before line 827 sets them anew; the count of the reads made at
\* this wavelength is kept until the point has been decided on.
RsCheck(w) ==
    /\ pc[w] = "rs_check"
    /\ IF ~success[w] /\ ~stop_spec_trigger
       THEN /\ stop_spec_trigger' = TRUE
            /\ hard_fail' = [hard_fail EXCEPT ![w] = TRUE]
            /\ undisturbed' =
                 [v \in Workers |-> v = w /\ undisturbed[v]]
       ELSE UNCHANGED <<stop_spec_trigger, hard_fail, undisturbed>>
    /\ try_j' = [try_j EXCEPT ![w] = 0]
    /\ success' = [success EXCEPT ![w] = FALSE]
    /\ Goto(w, "rs_append")
    /\ UNCHANGED <<initialized, acquisition_running, cal_running,
                   cal_collecting, stop_osc_trigger, stop_cal_trigger,
                   spec_thread, enabled, dialog_open, cal_vars, proc_vars, lock, dev_vars,
                   mon_vars, req, rep_i, curr_nm, data_ok, curr_spec,
                   mv_vars, gui_vars, faults, unlocked_calls, mon_obs,
                   nreads, zeroed, tail_log>>

\* line 923: update_progress_bar(start_nm, end_nm, curr_nm, ...) divides by
\* the difference of its first two arguments (lines 588-591), and the
\* division of Python floats by zero raises ZeroDivisionError
ProgressRaises(r) == r.start = r.end

\* lines 847-853: the point is built from the shared data; a failed result
\* carries 4 values, np.hstack onto the 17-row spectrum raises and the thread
\* ends.  With the abort flag set the point is skipped and lines 922-923
\* follow.
RsAppend(w) ==
    /\ pc[w] = "rs_append"
    /\ IF stop_spec_trigger
       THEN IF ProgressRaises(req[w])
            THEN /\ EndThread(w, "dead")
                 /\ UNCHANGED curr_spec
            ELSE /\ Goto(w, "rs_inner")
                 /\ hard_fail' = [hard_fail EXCEPT ![w] = FALSE]
                 /\ undisturbed' = [undisturbed EXCEPT ![w] = FALSE]
                 /\ nreads' = [nreads EXCEPT ![w] = 0]
                 /\ UNCHANGED <<curr_spec, wk_loc, zeroed, tail_log>>
       ELSE IF data_ok
            THEN /\ curr_spec' = Append(curr_spec, curr_nm[w])
                 /\ Goto(w, "rs_wait_avg")
                 /\ hard_fail' = [hard_fail EXCEPT ![w] = FALSE]
                 /\ undisturbed' = [undisturbed EXCEPT ![w] = FALSE]
                 /\ nreads' = [nreads EXCEPT ![w] = 0]
                 /\ UNCHANGED <<wk_loc, zeroed, tail_log>>
            ELSE /\ EndThread(w, "dead")
                 /\ UNCHANGED curr_spec
    /\ UNCHANGED <<ctrl_vars, lock, dev_vars, mon_vars, data_ok, mv_vars,
                   gui_vars, faults, unlocked_calls, mon_obs>>

\* lines 855-923: wait for a non-NaN avg_volt, fill in the point, hand it
\* to add_data_to_avg_spec when reps > 1 (lines 919-920), then update the
\* progress bar
RsWaitAvg(w) ==
    /\ pc[w] = "rs_wait_avg"
    /\ ~avg_is_nan
    /\ ingested' = IF req[w].reps > 1
                   THEN Append(ingested, [wl |-> curr_nm[w], rep |-> rep_i[w]])
                   ELSE ingested
    /\ IF ProgressRaises(req[w])
       THEN EndThread(w, "dead")
       ELSE /\ Goto(w, "rs_inner")
            /\ UNCHANGED <<wk_loc, nreads, zeroed, hard_fail, undisturbed,
                           tail_log>>
    /\ UNCHANGED <<ctrl_rest, lock, dev_vars, mon_vars, data_ok, curr_spec,
                   mv_vars, gui_vars, faults, unlocked_calls, mon_obs>>

\* lines 926-947: after the wavelength loop; without the abort flag the
\* spectrum is saved and the next repetition begins
RsAfter(w) ==
    /\ pc[w] = "rs_after"
    /\ IF stop_spec_trigger
       THEN /\ Goto(w, "rs_pmt_acq")
            /\ UNCHANGED rep_i
       ELSE /\ Goto(w, "rs_outer")
            /\ rep_i' = [rep_i EXCEPT ![w] = @ + 1]
    /\ UNCHANGED <<ctrl_vars, lock, dev_vars, mon_vars, req, curr_nm, try_j,
                   success, data_ok, curr_spec, mv_vars, gui_vars, faults,
                   obs_vars>>

\* line 927: set_PMT_voltage(0.0), then lines 929-947
RsPmtAcq(w) == WkAcquire(w, "rs_pmt_acq", "lockin_daq", "rs_pmt_call")

RsPmtCall(w) ==
    /\ pc[w] = "rs_pmt_call"
    /\ pmt_volt' = PmtAfterSet(0)
    /\ zeroed' = [zeroed EXCEPT ![w] = TRUE]
    /\ unlocked_calls' = Touch(unlocked_calls, "lockin_daq", Wk(w))
    /\ Release("lockin_daq")
    /\ rep_i' = [rep_i EXCEPT ![w] = @ + 1]
    /\ Goto(w, "rs_outer")
    /\ UNCHANGED <<ctrl_vars, signal_range, cbx_range, extref_active,
                   pem_active, path_nm, connected, mon_vars, req, curr_nm,
                   try_j, success, data_ok, curr_spec, mv_vars, gui_vars,
                   faults, mon_obs, abort_obs, nreads, hard_fail,
                   tail_log>>

\* the driver call raises: set_PMT_voltage's except clause logs and returns,
\* the release on line 1323 is skipped and record_spec goes on
RsPmtFault(w) ==
    /\ pc[w] = "rs_pmt_call"
    /\ faults < MaxFaults
    /\ faults' = faults + 1
    /\ unlocked_calls' = Touch(unlocked_calls, "lockin_daq", Wk(w))
    /\ rep_i' = [rep_i EXCEPT ![w] = @ + 1]
    /\ Goto(w, "rs_outer")
    /\ UNCHANGED <<ctrl_vars, lock, dev_vars, mon_vars, req, curr_nm, try_j,
                   success, data_ok, curr_spec, mv_vars, gui_vars, mon_obs,
                   abort_obs, wk_obs>>

\* line 948: set_acquisition_running(False)
RsStop(w) ==
    /\ pc[w] = "rs_stop"
    /\ acquisition_running' = FALSE
    /\ enabled' = EnabledAfterAcq(FALSE)
    /\ Goto(w, "rs_avg")
    /\ Logged(w, "acq_off")
    /\ UNCHANGED <<initialized, cal_running, cal_collecting,
                   stop_spec_trigger, stop_osc_trigger, stop_cal_trigger,
                   spec_thread, dialog_open, cal_vars, proc_vars, lock, dev_vars, mon_vars,
                   wk_rest, mv_vars, gui_vars, faults, unlocked_calls,
                   mon_obs, abort_obs, nreads, zeroed, hard_fail>>

\* lines 950-959: the averaged spectrum of a complete multi-repetition sweep
RsAvg(w) ==
    /\ pc[w] = "rs_avg"
    /\ Goto(w, "home_mod_daq_acq")
    /\ UNCHANGED <<ctrl_vars, lock, dev_vars, mon_vars, wk_rest, mv_vars,
                   gui_vars, faults, obs_vars>>

\* line 961: set_modulation_active(True)
HomeModDaqAcq(w) ==
    WkAcquire(w, "home_mod_daq_acq", "lockin_daq", "home_mod_daq_call")
HomeModDaqCall(w) ==
    ModDaqCall(w, "home_mod_daq_call", "home_mod_pem_acq", TRUE)
HomeModDaqFault(w) == WkFault(w, "home_mod_daq_call", "lockin_daq")
HomeModPemAcq(w) ==
    WkAcquire(w, "home_mod_pem_acq", "pem", "home_mod_pem_call")
HomeModPemCall(w) ==
    ModPemCall(w, "home_mod_pem_call", "home_mv_start", TRUE, "mod_on")
HomeModPemFault(w) == WkFault(w, "home_mod_pem_call", "pem")

\* line 963: move_nm(start_nm, move_pem=True)
HomeMoveStart(w) ==
    MoveStart(w, "home_mv_start", req[w].start, TRUE,
              "home_mv_pem_acq", "home_mv_wait", "rs_clear")
HomeMovePemAcq(w) == WkAcquire(w, "home_mv_pem_acq", "pem", "home_mv_pem_call")
HomeMovePemCall(w) == MovePemCall(w, "home_mv_pem_call", "home_mv_wait")
HomeMovePemFault(w) == WkFault(w, "home_mv_pem_call", "pem")
HomeMoveWait(w) == MoveWait(w, "home_mv_wait", "rs_clear", "home")

\* line 965: stop_spec_trigger[0] = False, the last statement of the thread
RsClear(w) ==
    /\ pc[w] = "rs_clear"
    /\ stop_spec_trigger' = FALSE
    /\ EndThread(w, "done")
    /\ UNCHANGED <<initialized, acquisition_running, cal_running,
                   cal_collecting, stop_osc_trigger, stop_cal_trigger,
                   spec_thread, enabled, dialog_open, cal_vars, proc_vars, lock, dev_vars,
                   mon_vars, data_ok, curr_spec, mv_vars, gui_vars, faults,
                   unlocked_calls, mon_obs>>

(***************************************************************************)
(* GUI thread: the handlers of the main window.  A modal dialog (the        *)
(* calibration wizard) keeps the user from the main window; timers and      *)
(* queued signals are still delivered.                                      *)
(***************************************************************************)
GuiFree == gui_pc = "idle" /\ ~dialog_open

\* start_spec, lines 708-726, for a request that passes the file checks;
\* the new thread is the first unused sweep worker
StartSpec(w, r) ==
    /\ GuiFree
    /\ enabled.btn_start
    /\ pc[w] = "idle"
    /\ \A v \in Workers : v < w => pc[v] # "idle"
    /\ stop_spec_trigger' = FALSE
    /\ acquisition_running' = TRUE
    /\ enabled' = EnabledAfterAcq(TRUE)
    /\ spec_thread' = w
    /\ req' = [req EXCEPT ![w] = r]
    /\ Goto(w, "rs_dwell_acq")
    /\ UNCHANGED <<initialized, cal_running, cal_collecting, stop_osc_trigger,
                   stop_cal_trigger, dialog_open, cal_vars, proc_vars, lock, dev_vars, mon_vars,
                   rep_i, curr_nm, try_j, success, data_ok, curr_spec,
                   mv_vars, gui_vars, faults, obs_vars>>

\* click_abort_spec -> abort_measurement
ClickAbort ==
    /\ GuiFree
    /\ enabled.btn_abort
    /\ AbortMeasurement(TRUE)
    /\ UNCHANGED <<initialized, cal_running, cal_collecting, stop_osc_trigger,
                   stop_cal_trigger, spec_thread, dialog_open, cal_vars, proc_vars, lock, dev_vars,
                   mon_vars, wk_vars, mv_vars, gui_pc, gui_arg, cbx_pending,
                   faults, unlocked_calls, mon_obs, wk_obs>>

\* reactivate_after_abort run by the single-shot timer, lines 1235-1242: it
\* re-arms itself while the sweep thread is alive
ReactivateTimer ==
    /\ gui_pc = "idle"
    /\ reactivate_timer
    /\ spec_thread # 0 => ~Alive(spec_thread)
    /\ reactivate_timer' = FALSE
    /\ acquisition_running' = FALSE
    /\ enabled' = EnabledAfterAcq(FALSE)
    /\ UNCHANGED <<initialized, cal_running, cal_collecting,
                   stop_spec_trigger, stop_osc_trigger, stop_cal_trigger,
                   spec_thread, dialog_open, cal_vars, proc_vars, lock, dev_vars, mon_vars,
                   wk_vars, mv_vars, gui_pc, gui_arg, cbx_pending, faults,
                   obs_vars>>

\* set_PMT_voltage(gui_arg), lines 1322-1325, called by the GUI thread
GuiPmtCall(at, nxt) ==
    /\ gui_pc = at
    /\ pmt_volt' = PmtAfterSet(gui_arg)
    /\ unlocked_calls' = Touch(unlocked_calls, "lockin_daq", GUI)
    /\ Release("lockin_daq")
    /\ gui_pc' = nxt
    /\ gui_arg' = 0
    /\ UNCHANGED <<ctrl_vars, signal_range, cbx_range, extref_active,
                   pem_active, path_nm, connected, mon_vars, wk_vars, mv_vars,
                   reactivate_timer, cbx_pending, faults, mon_obs, abort_obs,
                   wk_obs>>

\* the driver call raises: the except clause of set_PMT_voltage logs and
\* returns, the release is skipped
GuiPmtFault(at, nxt) ==
    /\ gui_pc = at
    /\ faults < MaxFaults
    /\ faults' = faults + 1
    /\ unlocked_calls' = Touch(unlocked_calls, "lockin_daq", GUI)
    /\ gui_pc' = nxt
    /\ gui_arg' = 0
    /\ UNCHANGED <<ctrl_vars, lock, dev_vars, mon_vars, wk_vars, mv_vars,
                   reactivate_timer, cbx_pending, mon_obs, abort_obs,
                   wk_obs>>

\* click_autorange -> set_auto_range, line 1340
ClickAutoRange ==
    /\ GuiFree
    /\ enabled.signaltuning
    /\ lock["lockin_daq"] = Free
    /\ lock' = [lock EXCEPT !["lockin_daq"] = GUI]
    /\ gui_pc' = "ar_call"
    /\ UNCHANGED <<ctrl_vars, dev_vars, mon_vars, wk_vars, mv_vars, gui_arg,
                   reactivate_timer, cbx_pending, faults, obs_vars>>

\* set_auto_range in the GUI thread, lines 1341-1343.  When the combo box
\* entry changes, currentIndexChanged runs change_cbx_range inside
\* setCurrentText: set_input_range waits for lockin_daq_lock, which this
\* thread holds (th.Lock is not reentrant), and the release of line 1343 is
\* never reached.
GuiAutoRangeCall ==
    /\ gui_pc = "ar_call"
    /\ \E r \in Ranges :
        /\ signal_range' = r
        /\ cbx_range' = r
        /\ IF r # cbx_range
           THEN /\ gui_pc' = "cbx_self_acq"
                /\ UNCHANGED lock
           ELSE /\ gui_pc' = "idle"
                /\ Release("lockin_daq")
    /\ unlocked_calls' = Touch(unlocked_calls, "lockin_daq", GUI)
    /\ UNCHANGED <<ctrl_vars, pmt_volt, extref_active, pem_active, path_nm,
                   connected, mon_vars, wk_vars, mv_vars, gui_arg,
                   reactivate_timer, cbx_pending, faults, mon_obs, abort_obs,
                   wk_obs>>

\* change_cbx_range delivered through the event queue (the combo box was
\* written by the monitor thread): set_input_range, line 1335
CbxRangeAcq ==
    /\ gui_pc = "idle"
    /\ cbx_pending
    /\ lock["lockin_daq"] = Free
    /\ lock' = [lock EXCEPT !["lockin_daq"] = GUI]
    /\ cbx_pending' = FALSE
    /\ gui_pc' = "cbx_call"
    /\ UNCHANGED <<ctrl_vars, dev_vars, mon_vars, wk_vars, mv_vars, gui_arg,
                   reactivate_timer, faults, obs_vars>>

\* set_input_range, lines 1336-1337
CbxRangeCall ==
    /\ gui_pc = "cbx_call"
    /\ signal_range' = cbx_range
    /\ unlocked_calls' = Touch(unlocked_calls, "lockin_daq", GUI)
    /\ Release("lockin_daq")
    /\ gui_pc' = "idle"
    /\ UNCHANGED <<ctrl_vars, pmt_volt, cbx_range, extref_active, pem_active,
                   path_nm, connected, mon_vars, wk_vars, mv_vars, gui_arg,
                   reactivate_timer, cbx_pending, faults, mon_obs, abort_obs,
                   wk_obs>>

(***************************************************************************)
(* Phase offset calibration.  PhaseOffsetCalibrationDialog creates a       *)
(* Controller of its own (line 1570) and calls every cal_ method on that   *)
(* object: a Controller on which neither init_devices nor                  *)
(* cal_phaseoffset_start has run, so it has no lockin_daq, no              *)
(* cal_pos_theta and no cal_neg_theta, and its locks are its own.          *)
(* Phase angles are integers in units of half a degree, so that the mean   *)
(* of two whole-degree angles is exact.                                    *)
(***************************************************************************)
Deg(x) == 2 * x

\* float('NaN'), line 1476
NaNDeg == 100000

\* a cal_get_new_phaseoffset that divides by two whatever was skipped
cal_get_new_phaseoffset_by2(pos_theta, neg_theta, offset, skipped_pos, skipped_neg) ==
    LET d1 == IF ~skipped_pos THEN pos_theta - Deg(90) ELSE 0
        d2 == IF ~skipped_neg THEN neg_theta + Deg(90) ELSE 0
    IN  IF skipped_pos /\ skipped_neg THEN NaNDeg
        ELSE offset + ((d1 + d2) \div 2)

\* cal_get_new_phaseoffset, lines 1475-1491, of a controller with the
\* attributes cal_pos_theta, cal_neg_theta and lockin_daq.phaseoffset
cal_get_new_phaseoffset(pos_theta, neg_theta, offset, skipped_pos, skipped_neg) ==
    LET d1 == IF ~skipped_pos THEN pos_theta - Deg(90) ELSE 0
        n1 == IF ~skipped_pos THEN 1 ELSE 0
        difference == IF ~skipped_neg THEN d1 + (neg_theta + Deg(90)) ELSE d1
        n == IF ~skipped_neg THEN n1 + 1 ELSE n1
    IN  IF n > 0 THEN offset + (difference \div n) ELSE NaNDeg

\* the record threads of one dialog: 1 collects the positive side, 2 the
\* negative side
RecThreads == {1, 2}

\* the holder of the dialog controller's lockin_daq_lock: 0 when free, a
\* record thread, or the GUI thread
GuiHolder == 3

\* PhaseOffsetCalibrationDialog.__init__, lines 1551-1568
NewDialog ==
    [step |-> 0, skipped_pos_cal |-> FALSE, skipped_neg_cal |-> FALSE,
     btn_next |-> TRUE, btn_skip |-> TRUE, status |-> "open"]

\* no dialog is shown
NoDialog ==
    [step |-> 0, skipped_pos_cal |-> FALSE, skipped_neg_cal |-> FALSE,
     btn_next |-> FALSE, btn_skip |-> FALSE, status |-> "none"]

\* Controller(), lines 96-118: the calibration attributes of a new
\* controller.  ready: it has a lockin_daq and the two theta attributes;
\* thread: the record thread cal_theta_thread refers to, 0 for None;
\* skipped, called: the arguments of the last cal_get_new_phaseoffset
NewController ==
    [ready |-> FALSE, pos_theta |-> 0, neg_theta |-> 0, new_value |-> 0,
     collecting |-> FALSE, stop_trigger |-> FALSE, thread |-> 0,
     th |-> [k \in RecThreads |-> "none"], lock |-> 0, timer |-> FALSE,
     skipped |-> <<FALSE, FALSE>>, called |-> FALSE]

\* the state a handler of the dialog works on: the dialog w, its
\* controller c, the phase offset of the device po, whether the dialog is
\* still shown, and whether the handler has raised
Cur ==
    [w |-> wiz, c |-> dctl, po |-> phaseoffset, open |-> dialog_open,
     raised |-> FALSE]

\* lines 1447-1452
cal_start_record_thread(c, k) ==
    [c EXCEPT !.collecting = TRUE, !.stop_trigger = FALSE, !.thread = k,
              !.th[k] = "started"]

\* lines 1469-1473
cal_stop_record(c) ==
    IF c.collecting
    THEN [c EXCEPT !.stop_trigger = TRUE, !.collecting = FALSE]
    ELSE c

\* lines 1506-1519
cal_end(c) == [c EXCEPT !.collecting = FALSE, !.stop_trigger = FALSE]

\* lines 1497-1504: the 100 ms timer calls it again
cal_end_after_thread(c) ==
    IF c.thread # 0 /\ c.th[c.thread] \in {"started", "locked"}
    THEN [c EXCEPT !.timer = TRUE]
    ELSE cal_end(c)

\* cal_apply_new, lines 1493-1495, and set_phaseoffset, lines 1345-1349:
\* acquire() does not return while a record thread holds the lock, and
\* without a lockin_daq the call raises after the acquire
cal_apply_new(s) ==
    IF s.c.new_value = NaNDeg THEN s
    ELSE IF s.c.lock # 0 THEN [s EXCEPT !.w.status = "blocked"]
    ELSE IF ~s.c.ready THEN [s EXCEPT !.c.lock = GuiHolder, !.raised = TRUE]
    ELSE [s EXCEPT !.po = s.c.new_value]

\* PhaseOffsetCalibrationDialog.close, lines 1653-1658
CloseDialog(s) ==
    LET c1 == IF s.w.step \in {1, 3} THEN cal_stop_record(s.c) ELSE s.c
    IN  [s EXCEPT !.c = cal_end_after_thread(c1), !.open = FALSE]

\* a show_summary that leaves the Next button as it is
show_summary_next_kept(s) ==
    LET sp == s.w.skipped_pos_cal
        sn == s.w.skipped_neg_cal
    IN  IF (~sn \/ ~sp) /\ ~s.c.ready
        THEN [s EXCEPT !.raised = TRUE]
        ELSE [s EXCEPT
                !.c.new_value =
                    cal_get_new_phaseoffset(s.c.pos_theta, s.c.neg_theta,
                                            s.po, sp, sn),
                !.c.skipped = <<sp, sn>>,
                !.c.called = TRUE,
                !.w.btn_skip = FALSE]

\* show_summary, lines 1600-1617: cal_get_current_values (line 1467) reads
\* lockin_daq, cal_get_new_phaseoffset reads the theta of each side that
\* was not skipped
show_summary(s) ==
    LET sp == s.w.skipped_pos_cal
        sn == s.w.skipped_neg_cal
    IN  IF (~sn \/ ~sp) /\ ~s.c.ready
        THEN [s EXCEPT !.raised = TRUE]
        ELSE [s EXCEPT
                !.c.new_value =
                    cal_get_new_phaseoffset(s.c.pos_theta, s.c.neg_theta,
                                            s.po, sp, sn),
                !.c.skipped = <<sp, sn>>,
                !.c.called = TRUE,
                !.w.btn_skip = FALSE,
                !.w.btn_next = ~(sp /\ sn)]

\* next_step, lines 1572-1598
next_step(s) ==
    LET st == s.w.step + 1
        s1 == [s EXCEPT !.w.step = st]
    IN  CASE st = 1 ->
               [s1 EXCEPT !.c = cal_start_record_thread(s.c, 1)]
          [] st = 2 -> [s1 EXCEPT !.c = cal_stop_record(s.c)]
          [] st = 3 ->
               [s1 EXCEPT !.c = cal_start_record_thread(s.c, 2)]
          [] st = 4 -> show_summary([s1 EXCEPT !.c = cal_stop_record(s.c)])
          [] st = 5 ->
               LET a == cal_apply_new(s1)
               IN  IF a.raised \/ a.w.status = "blocked" THEN a
                   ELSE CloseDialog(a)
          [] OTHER -> s1

\* skip, lines 1619-1637
skip(s) ==
    CASE s.w.step = 0 ->
           next_step([s EXCEPT !.w.skipped_pos_cal = TRUE, !.w.step = 1])
      [] s.w.step = 1 -> next_step([s EXCEPT !.w.skipped_pos_cal = TRUE])
      [] s.w.step = 2 ->
           next_step([s EXCEPT !.w.skipped_neg_cal = TRUE, !.w.step = 3])
      [] s.w.step = 3 -> next_step([s EXCEPT !.w.skipped_neg_cal = TRUE])
      [] OTHER -> s

\* what is not part of the calibration
non_proc == <<initialized, acquisition_running, cal_running, cal_collecting,
              stop_spec_trigger, stop_osc_trigger, stop_cal_trigger,
              spec_thread, enabled, lock, dev_vars, mon_vars, wk_vars,
              mv_vars, gui_vars, faults, obs_vars>>
non_cal == <<non_proc, proc_vars>>

\* a handler of the dialog has run to s.  An exception that leaves a slot
\* either is reported and the dialog goes on, or ends the process,
\* depending on the PyQt5 version and on sys.excepthook.
Handled(s) ==
    /\ \E out \in (IF s.raised THEN {"open", "aborted"} ELSE {s.w.status}) :
          wiz' = IF s.open THEN [s.w EXCEPT !.status = out] ELSE NoDialog
    /\ dctl' = s.c
    /\ phaseoffset' = s.po
    /\ dialog_open' = s.open
    /\ UNCHANGED non_cal

\* the largest step the dialog is followed to (next_step counts on when
\* the apply of step 5 has raised)
MaxStep == 6

\* calibrate -> cal_phaseoffset_start, lines 1436-1445: the wizard opens as
\* a modal dialog
CalStart ==
    /\ GuiFree
    /\ enabled.btn_cal
    /\ cal_running' = TRUE
    /\ cal_collecting' = FALSE
    /\ stop_cal_trigger' = FALSE
    /\ enabled' = set_active_components(initialized, acquisition_running,
                                        TRUE, FALSE)
    /\ dialog_open' = TRUE
    /\ wiz' = NewDialog
    /\ dctl' = NewController
    /\ UNCHANGED <<initialized, acquisition_running, stop_spec_trigger,
                   stop_osc_trigger, spec_thread, lock, dev_vars, mon_vars,
                   wk_vars, mv_vars, gui_vars, faults, obs_vars,
                   phaseoffset, proc_vars>>

\* the Next / Save button
WizNext ==
    /\ gui_pc = "idle"
    /\ dialog_open
    /\ wiz.status = "open"
    /\ wiz.btn_next
    /\ wiz.step < MaxStep
    /\ Handled(next_step(Cur))

\* the Skip button
WizSkip ==
    /\ gui_pc = "idle"
    /\ dialog_open
    /\ wiz.status = "open"
    /\ wiz.btn_skip
    /\ Handled(skip(Cur))

\* the Close button of the wizard.  cal_end runs on the controller of the
\* dialog, so the flags of this controller stay as cal_phaseoffset_start
\* left them.
CalDialogClose ==
    /\ gui_pc = "idle"
    /\ dialog_open
    /\ wiz.status = "open"
    /\ Handled(CloseDialog(Cur))

\* cal_record_thread, line 1456
CalRecAcquire(k) ==
    /\ wiz.status # "aborted"
    /\ dctl.th[k] = "started"
    /\ dctl.lock = 0
    /\ dctl' = [dctl EXCEPT !.th[k] = "locked", !.lock = k]
    /\ UNCHANGED <<non_cal, dialog_open, wiz, phaseoffset>>

\* cal_record_thread, lines 1457-1464: without a lockin_daq line 1457
\* raises and the thread ends with the lock held; with one, read_ac_theta
\* (mfli.py lines 445-472) returns its average once the stop flag is set,
\* and clears the flag
CalRecRead(k, thetas) ==
    /\ wiz.status # "aborted"
    /\ dctl.th[k] = "locked"
    /\ IF ~dctl.ready
       THEN dctl' = [dctl EXCEPT !.th[k] = "dead"]
       ELSE /\ dctl.stop_trigger
            /\ \E avg \in thetas :
                  dctl' = [dctl EXCEPT
                             !.th[k] = "done", !.lock = 0,
                             !.stop_trigger = FALSE,
                             !.pos_theta = IF k = 1 THEN avg ELSE @,
                             !.neg_theta = IF k = 2 THEN avg ELSE @]
    /\ UNCHANGED <<non_cal, dialog_open, wiz, phaseoffset>>

\* the timer of lines 157-158 and 1500 fires
CalEndTimer ==
    /\ wiz.status \notin {"aborted", "blocked"}
    /\ gui_pc = "idle"
    /\ dctl.timer
    /\ dctl' = cal_end_after_thread(dctl)
    /\ UNCHANGED <<non_cal, dialog_open, wiz, phaseoffset>>

\* Controller.set_initialized(False), lines 180-187: the close button and the
\* spectra-setup group are disabled, the signal-tuning group enabled
AfterUninit(en) ==
    [en EXCEPT !.btn_close = FALSE, !.btn_start = FALSE, !.btn_abort = FALSE,
               !.signaltuning = TRUE]

\* disconnect_devices, line 367: set_PMT_voltage(0.0) up to its acquire
ClickClose ==
    /\ GuiFree
    /\ enabled.btn_close
    /\ lock["lockin_daq"] = Free
    /\ lock' = [lock EXCEPT !["lockin_daq"] = GUI]
    /\ gui_pc' = "disc_pmt_call"
    /\ gui_arg' = 0
    /\ UNCHANGED <<ctrl_vars, dev_vars, mon_vars, wk_vars, mv_vars,
                   reactivate_timer, cbx_pending, faults, obs_vars>>

DiscPmtCall == GuiPmtCall("disc_pmt_call", "disc_stop")
DiscPmtFault == GuiPmtFault("disc_pmt_call", "disc_stop")

\* disconnect_devices, lines 370-374: the three stop flags, then the wait
DiscStop ==
    /\ gui_pc = "disc_stop"
    /\ stop_osc_trigger' = TRUE
    /\ stop_spec_trigger' = TRUE
    /\ stop_cal_trigger' = TRUE
    /\ undisturbed' = [w \in Workers |-> FALSE]
    /\ gui_pc' = "disc_close"
    /\ UNCHANGED <<initialized, acquisition_running, cal_running,
                   cal_collecting, spec_thread, enabled, dialog_open, cal_vars, proc_vars, lock,
                   dev_vars, mon_vars, wk_vars, mv_vars, gui_arg,
                   reactivate_timer, cbx_pending, faults, unlocked_calls,
                   mon_obs, wk_obs>>

\* disconnect_devices, lines 375-382: the five drivers are closed, no lock
\* is taken, then set_initialized(False)
DiscClose ==
    /\ gui_pc = "disc_close"
    /\ unlocked_calls' = unlocked_calls \cup {d \in Devices : lock[d] # GUI}
    /\ connected' = {}
    /\ initialized' = FALSE
    /\ enabled' = AfterUninit(enabled)
    /\ gui_pc' = "idle"
    /\ UNCHANGED <<acquisition_running, cal_running, cal_collecting,
                   stop_spec_trigger, stop_osc_trigger, stop_cal_trigger,
                   spec_thread, dialog_open, cal_vars, proc_vars, lock, pmt_volt, signal_range,
                   cbx_range, extref_active, pem_active, path_nm, mon_vars,
                   wk_vars, mv_vars, gui_arg, reactivate_timer, cbx_pending,
                   faults, mon_obs, abort_obs, wk_obs>>

(***************************************************************************)
(* Initial state: init_devices has succeeded (set_initialized(True), the   *)
(* monitor thread started by start_osc_monit, move_nm(1000) done) and no   *)
(* sweep has been started.                                                 *)
(***************************************************************************)
InitCtl ==
    /\ initialized = TRUE
    /\ acquisition_running = FALSE
    /\ cal_running = FALSE
    /\ cal_collecting = FALSE
    /\ stop_spec_trigger = FALSE
    /\ stop_osc_trigger = FALSE
    /\ stop_cal_trigger = FALSE
    /\ spec_thread = 0
    /\ lock = [d \in Devices |-> Free]
    /\ enabled = set_active_components(TRUE, FALSE, FALSE, FALSE)
    /\ dialog_open = FALSE
    /\ pmt_volt = PmtWorking
    /\ signal_range = DefaultRange
    /\ cbx_range = DefaultRange
    /\ extref_active = TRUE
    /\ pem_active = TRUE
    /\ path_nm = [pem |-> Nm(1000), monoi |-> Nm(1000), monoii |-> Nm(1000)]
    /\ connected = Devices
    /\ mon_pc = "mon_loop"
    /\ max_volt_history = <<>>
    /\ max_volt = 0
    /\ avg_is_nan = FALSE
    /\ range_limit_reached = FALSE
    /\ pmt_limit_reached = FALSE
    /\ polls = 0
    /\ pc = [w \in Workers |-> "idle"]
    /\ req = [w \in Workers |-> NoReq]
    /\ rep_i = [w \in Workers |-> 0]
    /\ curr_nm = [w \in Workers |-> 0]
    /\ try_j = [w \in Workers |-> 0]
    /\ success = [w \in Workers |-> FALSE]
    /\ data_ok = FALSE
    /\ curr_spec = <<>>
    /\ avg_spec = <<>>
    /\ dfall_spectra = <<>>
    /\ saved = {}
    /\ ingested = <<>>
    /\ mono = [c \in Callers |-> [i |-> "none", ii |-> "none"]]
    /\ mv_target = [c \in Callers |-> 0]
    /\ gui_pc = "idle"
    /\ gui_arg = 0
    /\ reactivate_timer = FALSE
    /\ cbx_pending = FALSE
    /\ faults = 0
    /\ unlocked_calls = {}
    /\ range_events = 0
    /\ pmt_events = 0
    /\ nreads = [w \in Workers |-> 0]
    /\ undisturbed = [w \in Workers |-> FALSE]
    /\ zeroed = [w \in Workers |-> FALSE]
    /\ hard_fail = [w \in Workers |-> FALSE]
    /\ tail_log = [w \in Workers |-> <<>>]

\* no calibration has been started; the phase offset is the one set at
\* initialisation
Init ==
    /\ InitCtl
    /\ wiz = NoDialog
    /\ dctl = NewController
    /\ phaseoffset = Deg(150)

(***************************************************************************)
(* Spec: the user (start, abort, PMT voltage, calibration wizard) and up   *)
(* to MaxSweeps sweep workers with their move threads; every device call   *)
(* succeeds.                                                               *)
(***************************************************************************)
WorkerSteps(w) ==
    \/ RsDwellAcq(w) \/ RsDwellSet(w)
    \/ PreModDaqAcq(w) \/ PreModDaqCall(w)
    \/ PreModPemAcq(w) \/ PreModPemCall(w)
    \/ RsOuter(w) \/ RsInner(w)
    \/ LpMoveStart(w) \/ LpMovePemAcq(w) \/ LpMovePemCall(w) \/ LpMoveWait(w)
    \/ RsTry(w) \/ RsReadAcq(w) \/ RsRead(w) \/ RsReadDone(w)
    \/ RsCheck(w) \/ RsAppend(w) \/ RsWaitAvg(w)
    \/ RsAfter(w) \/ RsPmtAcq(w) \/ RsPmtCall(w)
    \/ RsStop(w) \/ RsAvg(w)
    \/ HomeModDaqAcq(w) \/ HomeModDaqCall(w)
    \/ HomeModPemAcq(w) \/ HomeModPemCall(w)
    \/ HomeMoveStart(w) \/ HomeMovePemAcq(w) \/ HomeMovePemCall(w)
    \/ HomeMoveWait(w)
    \/ RsClear(w)

WorkerFaults(w) ==
    \/ PreModDaqFault(w) \/ PreModPemFault(w)
    \/ LpMovePemFault(w) \/ RsReadFault(w) \/ RsPmtFault(w)
    \/ HomeModDaqFault(w) \/ HomeModPemFault(w) \/ HomeMovePemFault(w)

MonoSteps(c, m) == MonoAcq(c, m) \/ MonoCall(c, m)

Next ==
    \/ \E w \in Workers, r \in Requests : StartSpec(w, r)
    \/ ClickAbort
    \/ ReactivateTimer
    \/ CalStart
    \/ CalDialogClose
    \/ \E w \in Workers : WorkerSteps(w)
    \/ \E w \in Workers, m \in {"i", "ii"} : MonoSteps(w, m)

Spec == Init /\ [][Next]_vars

(***************************************************************************)
(* SpecFault: one sweep at a time beside the safety monitor, the range     *)
(* controls and disconnect_devices, with at most MaxFaults device calls    *)
(* that raise.                                                             *)
(***************************************************************************)
\* what the oscilloscope shows: a signal at the shutdown threshold
FaultSamples == {shutdown_threshold}

FaultRequests ==
    {r \in Requests : r.end # r.start /\ r.reps = 1 /\ ~r.pem_off}

NextFault ==
    \/ \E r \in FaultRequests : StartSpec(1, r)
    \/ ClickAbort
    \/ ReactivateTimer
    \/ ClickAutoRange \/ GuiAutoRangeCall
    \/ CbxRangeAcq \/ CbxRangeCall
    \/ ClickClose \/ DiscPmtCall \/ DiscPmtFault \/ DiscStop \/ DiscClose
    \/ WorkerSteps(1) \/ WorkerFaults(1)
    \/ \E m \in {"i", "ii"} : MonoSteps(1, m) \/ MonoFault(1, m)
    \/ MonLoop \/ MonAcq \/ MonRead(FaultSamples, MaxPolls) \/ MonReadFault
    \/ MonAutoRangeAcq \/ MonAutoRangeCall \/ MonAutoRangeFault
    \/ MonAutoRangeAbort \/ MonAutoRangeAbortCall
    \/ MonPmtAcq \/ MonPmtCall \/ MonPmtFault \/ MonPmtAbort
    \/ MonPmtAbortCall
    \/ MonStopAcq \/ MonStopCall

SpecFault == Init /\ [][NextFault]_vars

(***************************************************************************)
(* SpecMon: the safety monitor alone, fed samples around the two           *)
(* thresholds, with no sweep and no user action.                           *)
(***************************************************************************)
SatV == (DefaultRange \div 20) * 19
NearSatV == SatV - 1
HotV == shutdown_threshold
MonSamples == {NaNV, 0, NearSatV, SatV, HotV}

NextMon ==
    \/ MonLoop
    \/ MonAcq
    \/ MonRead(MonSamples, MonPolls)
    \/ MonAutoRangeAcq
    \/ MonAutoRangeCall
    \/ MonAutoRangeAbort
    \/ MonPmtAcq
    \/ MonPmtCall
    \/ MonPmtAbort

SpecMon == Init /\ [][NextMon]_vars

(***************************************************************************)
(* Claims about the safety monitor                                         *)
(***************************************************************************)
AllAtLeast(h, n, bound) == \A i \in 1..n : FromEnd(h, i) >= bound

\* C9: from an empty history, 3 consecutive non-NaN samples at or above the
\* shutdown threshold trigger the PMT-overvoltage response exactly once, on
\* the 3rd sample; 2 such samples do not trigger it.
C9_PmtTriggersOnThirdSample ==
    /\ (Len(max_volt_history) = 3
        /\ AllAtLeast(max_volt_history, 3, shutdown_threshold))
       => pmt_events = 1
    /\ Len(max_volt_history) <= 2 => pmt_events = 0

\* C10: from an empty history, 5 identical samples at or above 95% of the
\* signal range trigger the range-limit response exactly once, on the 5th
\* sample and not before; the response fires only when all of the last 5
\* samples are equal within tolerance and all are at or above 95% of the
\* range.
C10_RangeLimitOnFifthSample ==
    /\ Len(max_volt_history) < 5 => range_events = 0
    /\ (Len(max_volt_history) = 5
        /\ \A i \in 1..5 : max_volt_history[i] = max_volt_history[1]
        /\ AllAtLeast(max_volt_history, 5, SatV))
       => range_events = 1
    /\ mon_pc = "mon_ar_acq"
       => /\ Len(max_volt_history) >= 5
          /\ \A i, k \in 1..5 : IsClose(FromEnd(max_volt_history, i),
                                        FromEnd(max_volt_history, k))
          /\ \A i \in 1..5 :
                AtLeast95(FromEnd(max_volt_history, i), signal_range)

C2_PmtZeroedBeforeReturn ==
    [][\A w \in Workers :
        (pc[w] = "rs_avg" /\ pc'[w] \in ReturnPcs /\ stop_spec_trigger)
        => zeroed[w]]_vars

\* C3: a sweep worker finishes by marking acquisition as not running,
\* re-enabling modulation, moving back to start_nm and clearing the abort
\* flag, in this order; when it has finished the abort flag is false and
\* modulation is active.
C3_OrderlyFinish ==
    [][\A w \in Workers :
        (pc[w] = "rs_clear" /\ pc'[w] = "done")
        => /\ tail_log[w] = <<"acq_off", "mod_on", "home">>
           /\ ~stop_spec_trigger'
           /\ extref_active'
           /\ pem_active']_vars

\* C4: at most one sweep worker is executing record_spec at any time.
C4_OneSweepWorker == Cardinality({w \in Workers : Alive(w)}) <= 1

\* C5: the calibration wizard is never active while a sweep worker is
\* executing, and no sweep is started while calibration is running.
C5_CalibrationExcludesSweep == cal_running => \A w \in Workers : ~Alive(w)

(***************************************************************************)
(* Claims about the device locks                                           *)
(***************************************************************************)
DaqSections == {"rs_dwell_set", "pre_mod_daq_call", "rs_read", "rs_pmt_call",
                "home_mod_daq_call"}
PemSections == {"pre_mod_pem_call", "lp_mv_pem_call", "home_mod_pem_call",
                "home_mv_pem_call"}

\* thread t is inside the code that acquired the lock of device d
InSection(t, d) ==
    \/ /\ t = GUI
       /\ d = "lockin_daq"
       /\ gui_pc \in {"ar_call", "cbx_self_acq", "cbx_call", "disc_pmt_call"}
    \/ /\ t = MON
       /\ \/ d = "lockin_osc" /\ mon_pc \in {"mon_read", "mon_stop_call"}
          \/ d = "lockin_daq" /\ mon_pc \in {"mon_ar_call", "mon_pmt_call"}
    \/ \E w \in Workers :
        /\ t = Wk(w)
        /\ \/ d = "lockin_daq" /\ pc[w] \in DaqSections
           \/ d = "pem" /\ pc[w] \in PemSections
    \/ \E c \in Callers, m \in {"i", "ii"} :
        t = MonoT(c, m) /\ d = MonoDev(m) /\ mono[c][m] = "hold"

\* C6: no device lock stays held after the operation that took it has
\* ended, whether it ended normally, by an abort or by a device call that
\* raised.
C6_LocksReleasedOnEveryExit ==
    \A d \in Devices : lock[d] # Free => InSection(lock[d], d)

\* the lock of device d will not be released: its holder has left the code
\* that took it, or waits for the same lock
NeverReleased(d) ==
    /\ lock[d] # Free
    /\ \/ ~InSection(lock[d], d)
       \/ lock[d] = GUI /\ gui_pc = "cbx_self_acq"

\* a sweep worker, the monitor or a move thread waits for the lock of d
Waits(d) ==
    \/ /\ d = "lockin_osc"
       /\ mon_pc \in {"mon_acq", "mon_stop_acq"}
    \/ /\ d = "lockin_daq"
       /\ \/ mon_pc \in {"mon_ar_acq", "mon_pmt_acq"}
          \/ \E w \in Workers :
               pc[w] \in {"rs_dwell_acq", "pre_mod_daq_acq", "rs_read_acq",
                          "rs_pmt_acq", "home_mod_daq_acq"}
    \/ /\ d = "pem"
       /\ \E w \in Workers :
            pc[w] \in {"pre_mod_pem_acq", "lp_mv_pem_acq", "home_mod_pem_acq",
                       "home_mv_pem_acq"}
    \/ \E c \in Callers, m \in {"i", "ii"} :
        d = MonoDev(m) /\ mono[c][m] = "want"

Holders == {lock[d] : d \in Devices} \ {Free}

\* C7: no thread holds two different device locks at the same time, and the
\* sweep worker, the monitor and the move threads never wait for a device
\* lock that will not be released.
C7_NoNestedLocksNoDeadlock ==
    /\ \A t \in Holders : Cardinality({d \in Devices : lock[d] = t}) <= 1
    /\ \A d \in Devices : ~(Waits(d) /\ NeverReleased(d))

\* C8: every call on a device driver after initialization is made while the
\* calling thread holds that device's lock, the close and disconnect calls
\* of disconnect_devices included.
C8_DriverCallsUnderLock == unlocked_calls = {}

(***************************************************************************)
(* Claims about the hazard responses                                       *)
(***************************************************************************)
\* the monitor has detected a hazard and has not finished handling it
MonHandling ==
    mon_pc \in {"mon_ar_acq", "mon_ar_call", "mon_ar_abort",
                "mon_ar_abort_call", "mon_pmt_acq", "mon_pmt_call",
                "mon_pmt_abort", "mon_pmt_abort_call"}

\* C11: when the monitor's handling of a detected range-limit or
\* PMT-overvoltage condition ends while a sweep is active
\* (acquisition_running), the abort flag is set.
C11_HazardAbortsActiveSweep ==
    [][(MonHandling /\ ~MonHandling' /\ acquisition_running)
        => stop_spec_trigger']_vars

(***************************************************************************)
(* SpecLive: one sweep beside the safety monitor, the auto-range button    *)
(* and the calibration wizard; every device call succeeds.  The threads    *)
(* of the program keep running: a thread that can take a step takes one,   *)
(* and a thread blocked in acquire() gets the lock when it is released     *)
(* again and again.  The user's clicks are under no obligation.            *)
(***************************************************************************)
MonSteps ==
    \/ MonLoop \/ MonAcq \/ MonRead(FaultSamples, MaxPolls)
    \/ MonAutoRangeAcq \/ MonAutoRangeCall \/ MonAutoRangeAbort
    \/ MonAutoRangeAbortCall
    \/ MonPmtAcq \/ MonPmtCall \/ MonPmtAbort \/ MonPmtAbortCall

GuiSteps == GuiAutoRangeCall \/ CbxRangeAcq \/ CbxRangeCall

NextLive ==
    \/ \E r \in FaultRequests : StartSpec(1, r)
    \/ ClickAbort
    \/ ReactivateTimer
    \/ ClickAutoRange
    \/ CalStart
    \/ CalDialogClose
    \/ GuiSteps
    \/ WorkerSteps(1)
    \/ \E m \in {"i", "ii"} : MonoSteps(1, m)
    \/ MonSteps

SpecLive ==
    /\ Init
    /\ [][NextLive]_vars
    /\ SF_vars(MonSteps)
    /\ SF_vars(WorkerSteps(1))
    /\ \A m \in {"i", "ii"} : SF_vars(MonoSteps(1, m))
    /\ SF_vars(GuiSteps)
    /\ WF_vars(ReactivateTimer)

\* C12: whenever the monitor has detected the PMT-overvoltage condition, the
\* PMT control voltage is eventually 0 V, whatever else is in progress and
\* without any further user action.
C12_PmtEventuallyZero ==
    (MonHandling /\ pmt_limit_reached) ~> (pmt_volt = 0)

(***************************************************************************)
(* SpecSweep: one sweep at a time over fractional wavelengths, with the    *)
(* abort button; every device call succeeds.                               *)
(***************************************************************************)
\* the start, end and step fields of the sweeps, in tenths of a nm:
\* 2.0 -> 2.2 by 0.1, 2.0 -> 2.1 by 0.1, 2.0 -> 2.5 by 0.5, 2.0 -> 1.5 by 0.5
\* and 2.0 -> 2.3 by 0.5, whose step does not divide the range
WlTexts ==
    {<<20, 22, 1>>, <<20, 21, 1>>, <<20, 25, 5>>, <<20, 15, 5>>,
     <<20, 23, 5>>}

WlRequests ==
    {[start |-> FromTenths(t[1]), end |-> FromTenths(t[2]),
      step |-> FromTenths(t[3]), reps |-> 1, pem_off |-> FALSE] :
        t \in WlTexts}

NextSweep ==
    \/ \E r \in WlRequests : StartSpec(1, r)
    \/ ClickAbort
    \/ ReactivateTimer
    \/ WorkerSteps(1)
    \/ \E m \in {"i", "ii"} : MonoSteps(1, m)

SpecSweep == Init /\ [][NextSweep]_vars

(***************************************************************************)
(* Claims about the requests                                               *)
(***************************************************************************)
CeilDiv(a, b) == (a + b - 1) \div b

\* the unit in the last place of a float of magnitude a
Ulp(a) == Pow2(LastPlace(a))

\* v begins at start, is strictly monotonic towards end, is spaced by step
\* up to the rounding of one addition, and has ceil(|end-start|/step)
\* points give or take one
WlSequenceOk(r, v) ==
    LET dir == IF r.end > r.start THEN 1 ELSE -1
        n   == CeilDiv(Abs(r.end - r.start), r.step)
    IN  /\ Len(v) >= 1
        /\ v[1] = r.start
        /\ \A i \in 1..(Len(v) - 1) :
              /\ dir * (v[i + 1] - v[i]) > 0
              /\ Abs(Abs(v[i + 1] - v[i]) - r.step)
                    <= Ulp(Max2(Abs(v[i]), Abs(v[i + 1])))
        /\ Len(v) >= n - 1
        /\ Len(v) <= n + 1

\* C13: for a request with start # end and step > 0, the wavelengths
\* visited in a repetition that was not aborted begin at start_nm, are
\* strictly monotonic in the direction of end_nm with spacing step, and
\* their number is ceil(|end-start|/step) give or take one.
C13_WavelengthsVisited ==
    [][\A w \in Workers :
        (pc[w] = "rs_after" /\ ~stop_spec_trigger /\ pc'[w] # pc[w]
         /\ req[w].start # req[w].end /\ req[w].step > 0)
        => WlSequenceOk(req[w], curr_spec)]_vars

(***************************************************************************)
(* SpecForm: the start button with the file fields of the form filled in   *)
(* by the user; every device call succeeds.                                *)
(***************************************************************************)
\* what a file field holds: nothing, the name of a file in .\data, or a
\* name with no such file
FileTexts == {"empty", "found", "missing"}

\* what the filename field holds: a name with one of the illegal
\* characters, a name that is empty or already taken in .\data, or a new
\* name
NameTexts == {"illegal", "taken", "free"}

\* the file fields of the form (edt_ac_blank, edt_dc_blank, edt_base,
\* edt_det_corr, edt_filename), disabled while a sweep runs
Forms ==
    [ac : FileTexts, dc : FileTexts, base : FileTexts, det : FileTexts,
     filename : NameTexts]

\* lines 672-676, for a blank or correction field
filename_exists_or_empty(t) == t # "missing"

\* lines 678-684
check_illegal_chars(t) == t = "illegal"

\* the validation of start_spec, lines 686-708: TRUE when the thread is
\* started
StartSpecAccepts(f) ==
    LET ac_blank   == f.ac
        dc_blank   == f.dc
        base_blank == f.dc
        det_corr   == f.det
        ac_blank_exists   == filename_exists_or_empty(ac_blank)
        dc_blank_exists   == filename_exists_or_empty(dc_blank)
        base_blank_exists == filename_exists_or_empty(base_blank)
        det_corr_exists   == filename_exists_or_empty(det_corr)
        filename_exists   == f.filename = "taken"
        error == \/ ~ac_blank_exists
                 \/ ~dc_blank_exists
                 \/ ~det_corr_exists
                 \/ filename_exists
                 \/ ~base_blank_exists
    IN  ~check_illegal_chars(f.filename) /\ ~error

\* start_spec, lines 670-743, with the form as the user left it: a
\* rejected request is logged and nothing else happens; the worker of an
\* accepted one carries the form it was started from
ClickStartSpec(w, r, f) ==
    IF StartSpecAccepts(f)
    THEN StartSpec(w, r @@ [form |-> f])
    ELSE GuiFree /\ enabled.btn_start /\ UNCHANGED vars

FormRequests ==
    {r \in Requests : r.end # r.start /\ r.reps = 1 /\ ~r.pem_off}

NextForm ==
    \/ \E r \in FormRequests, f \in Forms : ClickStartSpec(1, r, f)
    \/ ClickAbort
    \/ ReactivateTimer
    \/ WorkerSteps(1)
    \/ \E m \in {"i", "ii"} : MonoSteps(1, m)

SpecForm == Init /\ [][NextForm]_vars

\* the form names no missing file, no taken output file, and no illegal
\* character
FormNamesNoFault(f) ==
    /\ f.ac # "missing"
    /\ f.dc # "missing"
    /\ f.base # "missing"
    /\ f.det # "missing"
    /\ f.filename = "free"

\* C14: a request that names a missing AC-blank, DC-blank, base-blank or
\* detector-correction file, an output file that exists, or a filename
\* with an illegal character is rejected: no step starts a worker, sets
\* acquisition_running or touches the abort flag for such a form.
C14_BadFormRejected ==
    [][\A w \in Workers :
        (pc[w] = "idle" /\ pc'[w] # "idle")
        => FormNamesNoFault(req'[w].form)]_vars

\* C15: a request with start = end is rejected at validation: no worker is
\* started for it, and the wavelength loop is never entered with
\* start_nm = end_nm.
C15_EqualEndsRejected ==
    /\ [][\A w \in Workers :
            (pc[w] = "idle" /\ pc'[w] # "idle")
            => req'[w].start # req'[w].end]_vars
    /\ [](\A w \in Workers :
            pc[w] = "lp_mv_start" => req[w].start # req[w].end)

(***************************************************************************)
(* Claims about sweeps that end fatally                                    *)
(***************************************************************************)
\* C16: a fatal condition that ends a sweep leaves the PMT control voltage
\* at 0 V by the time the worker has stopped; here for the worker of a
\* request with start # end that stops because a call in it raised.
C16_FatalEndZeroesPmt ==
    [][\A w \in Workers :
        (pc[w] # "dead" /\ pc'[w] = "dead" /\ ~ProgressRaises(req[w]))
        => pmt_volt' = 0]_vars

\* C17: after a sweep has ended fatally the shared state permits the next
\* sweep: once the worker has stopped on an exception acquisition_running
\* is false and the lockin_daq lock is free, and the abort flag is clear
\* when a new worker begins.
C17_FatalEndPermitsNextSweep ==
    /\ [](\A w \in Workers :
            pc[w] = "dead"
            => (~acquisition_running /\ lock["lockin_daq"] = Free))
    /\ [][\A w \in Workers :
            (pc[w] = "idle" /\ pc'[w] # "idle") => ~stop_spec_trigger']_vars

(***************************************************************************)
(* SpecCalFn: cal_get_new_phaseoffset on a controller whose record threads *)
(* have stored their averages, for every choice of what was skipped.       *)
(***************************************************************************)
CalThetas == {Deg(95), Deg(85), Deg(90), Deg(0), Deg(-85), Deg(-95)}
CalOffsets == {Deg(150), Deg(0), Deg(-30)}

InitCalFn ==
    /\ InitCtl
    /\ wiz = NoDialog
    /\ \E p \in CalThetas, n \in CalThetas :
          dctl = [NewController EXCEPT !.ready = TRUE, !.pos_theta = p,
                                       !.neg_theta = n, !.new_value = NaNDeg]
    /\ phaseoffset \in CalOffsets

\* cal_get_new_phaseoffset(skipped_pos, skipped_neg), lines 1475-1491
CalGetNewPhaseoffset(skipped_pos, skipped_neg) ==
    /\ dctl.ready
    /\ dctl' = [dctl EXCEPT
                  !.new_value =
                      cal_get_new_phaseoffset(dctl.pos_theta, dctl.neg_theta,
                                              phaseoffset, skipped_pos,
                                              skipped_neg),
                  !.skipped = <<skipped_pos, skipped_neg>>,
                  !.called = TRUE]
    /\ UNCHANGED <<non_cal, dialog_open, wiz, phaseoffset>>

NextCalFn ==
    \E skipped_pos \in BOOLEAN, skipped_neg \in BOOLEAN :
        CalGetNewPhaseoffset(skipped_pos, skipped_neg)

SpecCalFn == InitCalFn /\ [][NextCalFn]_vars

(***************************************************************************)
(* SpecWiz: one session of the calibration wizard, with its record threads *)
(***************************************************************************)
NextWiz ==
    \/ CalStart
    \/ WizNext
    \/ WizSkip
    \/ CalDialogClose
    \/ \E k \in RecThreads : CalRecAcquire(k)
    \/ \E k \in RecThreads : CalRecRead(k, CalThetas)
    \/ CalEndTimer

SpecWiz == Init /\ [][NextWiz]_vars

(***************************************************************************)
(* Claims about the calibration                                            *)
(***************************************************************************)
\* C18: cal_get_new_phaseoffset returns the current offset plus the
\* average, over the sides that were not skipped, of (positive average -
\* 90) and (negative average + 90); with pos = 95, neg = -85 and offset =
\* 150 the result is 155, with nothing skipped and with the positive side
\* skipped.
C18_NewPhaseoffset ==
    dctl.called =>
        LET sp == dctl.skipped[1]
            sn == dctl.skipped[2]
            t1 == dctl.pos_theta - Deg(90)
            t2 == dctl.neg_theta + Deg(90)
            change == dctl.new_value - phaseoffset
        IN  /\ (~sp /\ ~sn) => 2 * change = t1 + t2
            /\ (sp /\ ~sn) => change = t2
            /\ (~sp /\ sn) => change = t1
            /\ (dctl.pos_theta = Deg(95) /\ dctl.neg_theta = Deg(-85)
                /\ phaseoffset = Deg(150) /\ ~sn)
               => dctl.new_value = Deg(155)

\* the example of the claim with the positive side skipped
C18_Witness ==
    /\ dctl.called
    /\ dctl.skipped = <<TRUE, FALSE>>
    /\ dctl.pos_theta = Deg(95)
    /\ dctl.neg_theta = Deg(-85)
    /\ phaseoffset = Deg(150)
    /\ dctl.new_value = Deg(155)

\* C19: when both sides of a calibration were skipped, the new offset is
\* NaN and the Next/Save button of the wizard is disabled once the summary
\* is shown, and nothing in that session changes the phase offset of the
\* device.
C19_BothSkipped ==
    /\ []((dialog_open /\ wiz.step >= 4
           /\ wiz.skipped_pos_cal /\ wiz.skipped_neg_cal)
          => (dctl.new_value = NaNDeg /\ ~wiz.btn_next))
    /\ [][(dialog_open /\ ((wiz.skipped_pos_cal /\ wiz.skipped_neg_cal)
                           \/ (wiz'.skipped_pos_cal /\ wiz'.skipped_neg_cal)))
          => phaseoffset' = phaseoffset]_vars

\* the summary of a session with both sides skipped is shown
C19_Witness ==
    /\ dialog_open
    /\ wiz.step = 4
    /\ wiz.skipped_pos_cal
    /\ wiz.skipped_neg_cal
    /\ dctl.called
    /\ dctl.skipped = <<TRUE, TRUE>>

(***************************************************************************)
(* Claims about abort_measurement                                          *)
(***************************************************************************)
\* C20: abort_measurement called when no sweep is active is a no-op: with
\* no sweep worker alive, the abort flag clear and acquisition_running
\* false before the call, the flag is still clear and acquisition_running
\* still false after it.
C20_IdleAbortIsNoOp ==
    [][((\A w \in Workers : ~Alive(w))
        /\ ~stop_spec_trigger /\ ~acquisition_running
        /\ mon_pc \in {"mon_ar_abort_call", "mon_pmt_abort_call"}
        /\ mon_pc' # mon_pc)
       => (~stop_spec_trigger' /\ ~acquisition_running')]_vars

(***************************************************************************)
(* The numbers of a spectrum.  Python floats are kept as exact fractions   *)
(* <<numerator, denominator>> in lowest terms with a positive denominator: *)
(* the rounding of the float operations is left out, so that what differs  *)
(* from a mean below differs by the formula and not by an ulp.             *)
(***************************************************************************)
RECURSIVE Gcd(_, _)
Gcd(a, b) == IF b = 0 THEN a ELSE Gcd(b, a % b)

Rat(n, d) ==
    LET s == IF d < 0 THEN -1 ELSE 1
        g == Gcd(Abs(n), Abs(d))
    IN  <<(s * n) \div g, (s * d) \div g>>

RInt(n) == <<n, 1>>
\* the operations reduce before they multiply, to keep the integers small
RAdd(x, y) ==
    LET g == Gcd(x[2], y[2])
    IN  Rat(x[1] * (y[2] \div g) + y[1] * (x[2] \div g),
            (x[2] \div g) * y[2])
RNeg(x) == <<-x[1], x[2]>>
RSub(x, y) == RAdd(x, RNeg(y))
RMul(x, y) ==
    LET g1 == Gcd(Abs(x[1]), y[2])
        g2 == Gcd(Abs(y[1]), x[2])
    IN  Rat((x[1] \div g1) * (y[1] \div g2),
            (x[2] \div g2) * (y[2] \div g1))
\* x / y for y # 0
RDiv(x, y) ==
    RMul(x, IF y[1] < 0 THEN <<-y[2], -y[1]>> ELSE <<y[2], y[1]>>)
RLeq(x, y) == x[1] * y[2] <= y[1] * x[2]

RECURSIVE RSum(_)
RSum(s) == IF s = <<>> THEN RInt(0) ELSE RAdd(Head(s), RSum(Tail(s)))

\* the arithmetic mean of a non-empty sequence of numbers
RMean(s) == RDiv(RSum(s), RInt(Len(s)))

(***************************************************************************)
(* SpecAcc: add_data_to_avg_spec fed, repetition after repetition, with    *)
(* the points of a sweep over the wavelengths AccWl.                       *)
(***************************************************************************)
MaxReps == 3
AccWl == <<300, 301>>
\* DC and AC of a point as the lock-in returns them
AccDc == {RInt(2), RInt(4)}
AccAc == {RInt(1), RInt(3)}
\* path_l * sample_c
AccCl == {RInt(1), RInt(2)}

\* data_with_WL of line 850, by the row numbers 0, 1, 3, 5, 11 and 15 that
\* add_data_to_avg_spec reads; read_data returns dc in the rows of CD, gabs
\* and ellip (src/mfli.py lines 395-400)
DataWithWl(wl, dc, ac) ==
    [wl |-> wl, dc |-> dc, ac |-> ac, cd |-> dc, gabs |-> dc, ellip |-> dc]

\* the position of wavelength wl in row 0 of avg (0 when it is not there)
AvgIndex(avg, wl) ==
    IF \E i \in 1..Len(avg) : avg[i][1] = wl
    THEN CHOOSE i \in 1..Len(avg) :
             avg[i][1] = wl /\ \A j \in 1..(i - 1) : avg[j][1] # wl
    ELSE 0

\* an add_data_to_avg_spec that adds a column for a wavelength it does not
\* find
add_data_to_avg_spec_grow(avg, d, curr_rep, cl) ==
    IF curr_rep = 0 \/ AvgIndex(avg, d.wl) = 0
    THEN Append(avg, <<d.wl, d.dc, d.ac, d.cd, d.gabs, d.ellip>>)
    ELSE avg

\* add_data_to_avg_spec(data, curr_rep): a column of avg is <<row 0, ...,
\* row 5>> of avg_spec at one wavelength
add_data_to_avg_spec(avg, d, curr_rep, cl) ==
    IF curr_rep = 0
    THEN Append(avg, <<d.wl, d.dc, d.ac, d.cd, d.gabs, d.ellip>>)
    ELSE LET i == AvgIndex(avg, d.wl)
         IN  IF i = 0 THEN avg
             ELSE LET k == RInt(curr_rep)
                      k1 == RInt(curr_rep + 1)
                      \* lines 985-988
                      r1 == RDiv(RAdd(RMul(avg[i][2], k), d.dc), k1)
                      r2a == RDiv(RAdd(RMul(avg[i][3], k), d.ac), k1)
                      \* lines 991-992 store into row 2 again
                      r2 == RDiv(RDiv(r2a, r1), cl)
                      \* lines 995 and 998
                      r3 == RDiv(r2, r1)
                      r5 == RDiv(r2, r1)
                  IN  [avg EXCEPT ![i] = <<avg[i][1], r1, r2, r3, avg[i][5],
                                            r5>>]

\* the repetition and the wavelength of the next point
AccRep == Len(ingested) \div Len(AccWl)
AccPos == (Len(ingested) % Len(AccWl)) + 1

\* lines 919-920 for one accepted point of a run with reps = MaxReps
AccIngest(dc, ac, cl) ==
    /\ AccRep < MaxReps
    /\ LET d == DataWithWl(AccWl[AccPos], dc, ac)
       IN  /\ avg_spec' = add_data_to_avg_spec(avg_spec, d, AccRep, cl)
           /\ ingested' = Append(ingested, d)
    /\ UNCHANGED <<non_proc, cal_vars, dialog_open, dfall_spectra, saved>>

NextAcc ==
    \E dc \in AccDc, ac \in AccAc, cl \in AccCl : AccIngest(dc, ac, cl)

SpecAcc == Init /\ [][NextAcc]_vars

\* the values of channel ch handed in so far at wavelength wl
RECURSIVE IngestedAt(_, _, _)
IngestedAt(s, wl, ch) ==
    IF s = <<>> THEN <<>>
    ELSE IF Head(s).wl = wl
         THEN <<Head(s)[ch]>> \o IngestedAt(Tail(s), wl, ch)
         ELSE IngestedAt(Tail(s), wl, ch)

\* C21: in a run of more than one repetition, the DC row and the AC row of
\* the Accumulator hold, at each wavelength, the arithmetic mean of the DC
\* (AC) values handed in so far at that wavelength.
C21_AccumulatorMeans ==
    \A i \in 1..Len(avg_spec) :
        /\ avg_spec[i][2] = RMean(IngestedAt(ingested, avg_spec[i][1], "dc"))
        /\ avg_spec[i][3] = RMean(IngestedAt(ingested, avg_spec[i][1], "ac"))

(***************************************************************************)
(* Spectra as data frames.  A frame is the sequence of its rows in the     *)
(* order of measurement; a row is a record with the index WL and the       *)
(* columns.  A standard deviation is kept as its square, so that the       *)
(* square roots of the error propagation stay fractions; CD is kept in     *)
(* units of the instrument constant 3298.2.  NaN is the string "NaN".      *)
(***************************************************************************)
NaN == "NaN"
IsNaN(x) == x = NaN
NSub(x, y) == IF IsNaN(x) \/ IsNaN(y) THEN NaN ELSE RSub(x, y)
NAdd(x, y) == IF IsNaN(x) \/ IsNaN(y) THEN NaN ELSE RAdd(x, y)
NMul(x, y) == IF IsNaN(x) \/ IsNaN(y) THEN NaN ELSE RMul(x, y)
\* numpy division: x / 0 is inf or NaN and no exception; the frames of the
\* model keep DC away from 0
NDiv(x, y) ==
    IF IsNaN(x) \/ IsNaN(y) \/ y[1] = 0 THEN NaN ELSE RDiv(x, y)
NSq(x) == NMul(x, x)

\* calc_cd on one row, lines 1136-1161; cl is path_l * sample_c
calc_cd_row(r, cl) ==
    LET AC == r.AC
        DC == r.DC
        I_L == NAdd(AC, DC)
        I_R == NSub(DC, AC)
        ellip == NDiv(AC, DC)
        I_L_std == NAdd(r.AC_std, r.DC_std)
        I_R_std == NAdd(r.AC_std, r.DC_std)
        ellip_std ==
            NAdd(NMul(NSq(NDiv(RInt(1), DC)), r.AC_std),
                 NMul(NSq(NDiv(AC, NSq(DC))), r.DC_std))
        partial_IL == NDiv(NMul(RInt(2), I_R), NSq(NAdd(I_L, I_R)))
        partial_IR == NDiv(NMul(RInt(-2), I_L), NSq(NAdd(I_L, I_R)))
    IN  [r EXCEPT
           !.CD = NDiv(AC, NMul(DC, cl)),
           !.I_L = I_L,
           !.I_R = I_R,
           !.ellip = ellip,
           !.m_ellip = NDiv(ellip, cl),
           !.gabs = NDiv(NSub(I_L, I_R), NAdd(I_L, I_R)),
           !.CD_std =
               NAdd(NMul(NSq(NDiv(RInt(1), NMul(DC, cl))), r.AC_std),
                    NMul(NSq(NDiv(AC, NMul(NSq(DC), cl))), r.DC_std)),
           !.I_L_std = I_L_std,
           !.I_R_std = I_R_std,
           !.ellip_std = ellip_std,
           !.m_ellip_std = NDiv(ellip_std, NSq(cl)),
           !.gabs_std = NAdd(NMul(NSq(partial_IL), I_L_std),
                             NMul(NSq(partial_IR), I_R_std))]

calc_cd(df, cl) == [i \in 1..Len(df) |-> calc_cd_row(df[i], cl)]

Zero == RInt(0)

\* the row record_spec builds for one accepted point, lines 850-917: the
\* derived channels are computed from AC and DC as calc_cd computes them
SpecRow(wl, dc, dc_std, ac, ac_std, cl) ==
    calc_cd_row([WL |-> wl, DC |-> dc, DC_std |-> dc_std, AC |-> ac,
                 AC_std |-> ac_std, CD |-> Zero, CD_std |-> Zero,
                 I_L |-> Zero, I_L_std |-> Zero, I_R |-> Zero,
                 I_R_std |-> Zero, gabs |-> Zero, gabs_std |-> Zero,
                 m_ellip |-> Zero, m_ellip_std |-> Zero, ellip |-> Zero,
                 ellip_std |-> Zero], cl)

Columns == {"DC", "DC_std", "AC", "AC_std", "CD", "CD_std", "I_L",
            "I_L_std", "I_R", "I_R_std", "gabs", "gabs_std", "m_ellip",
            "m_ellip_std", "ellip", "ellip_std"}
StdColumns == {"DC_std", "AC_std", "CD_std", "I_L_std", "I_R_std",
               "gabs_std", "m_ellip_std", "ellip_std"}

\* the index of a frame, and the value of column c at wavelength wl (NaN
\* where the index does not hold wl, as the alignment of pandas gives)
Index(df) == {df[i].WL : i \in 1..Len(df)}
At(df, wl, c) ==
    IF wl \in Index(df)
    THEN df[CHOOSE i \in 1..Len(df) : df[i].WL = wl][c]
    ELSE NaN

RECURSIVE NSumAt(_, _, _, _)
\* lines 1018-1028 for column c at wavelength wl: the sum over the frames
\* of value / count, and of (std / count) ** 2 for a standard deviation
NSumAt(dfs, wl, c, count) ==
    IF dfs = <<>> THEN Zero
    ELSE NAdd(NDiv(At(Head(dfs), wl, c),
                   IF c \in StdColumns THEN RInt(count * count)
                   ELSE RInt(count)),
              NSumAt(Tail(dfs), wl, c, count))

\* df_average_spectra(dfspectra), lines 1009-1037: the frame of the first
\* repetition set to zero, the columns DC, AC, CD, m_ellip, ellip and
\* their standard deviations summed over the repetitions (a standard
\* deviation as (std / count) ** 2, the root taken at the end), and then
\* calc_cd, which computes every derived column anew
df_average_spectra(dfspectra, cl) ==
    LET count == Len(dfspectra)
        first == dfspectra[1]
        Averaged == {"DC", "DC_std", "AC", "AC_std", "CD", "CD_std",
                     "m_ellip", "m_ellip_std", "ellip", "ellip_std"}
        row(i) ==
            [c \in Columns \cup {"WL"} |->
                IF c = "WL" THEN first[i].WL
                ELSE IF c \in Averaged
                     THEN NSumAt(dfspectra, first[i].WL, c, count)
                     ELSE Zero]
    IN  calc_cd([i \in 1..Len(first) |-> row(i)], cl)

\* is_suitable without the test of the measured wavelengths
is_suitable_region(dfspec, df_corr, check_index) ==
    LET Min2(a, b) == IF a <= b THEN a ELSE b
        lo_spec == Min2(dfspec[1].WL, dfspec[Len(dfspec)].WL)
        hi_spec == Max2(dfspec[1].WL, dfspec[Len(dfspec)].WL)
        lo_corr == Min2(df_corr[1].WL, df_corr[Len(df_corr)].WL)
        hi_corr == Max2(df_corr[1].WL, df_corr[Len(df_corr)].WL)
    IN  lo_spec >= lo_corr /\ hi_spec <= hi_corr

\* is_suitable(df_corr, check_index), lines 1042-1056, for non-empty frames
is_suitable(dfspec, df_corr, check_index) ==
    LET first_WL_spec == dfspec[1].WL
        last_WL_spec == dfspec[Len(dfspec)].WL
        first_WL_corr == df_corr[1].WL
        last_WL_corr == df_corr[Len(df_corr)].WL
        Min2(a, b) == IF a <= b THEN a ELSE b
        WL_region_ok ==
            /\ Min2(first_WL_spec, last_WL_spec)
                 >= Min2(first_WL_corr, last_WL_corr)
            /\ Max2(first_WL_spec, last_WL_spec)
                 <= Max2(first_WL_corr, last_WL_corr)
        values_ok == ~check_index \/ Index(dfspec) \subseteq Index(df_corr)
    IN  WL_region_ok /\ values_ok

\* SubtractColumn with the operands of the subtraction exchanged
SubtractColumnSwapped(dfspec, blank, c, c_std) ==
    [i \in 1..Len(dfspec) |->
        [dfspec[i] EXCEPT
           ![c] = NSub(At(blank, dfspec[i].WL, c), @),
           ![c_std] = NAdd(NDiv(@, RInt(4)),
                           NDiv(At(blank, dfspec[i].WL, c_std), RInt(4)))]]

\* dfspec[c] = dfspec[c] - blank[c] and
\* dfspec[c_std] = ((dfspec[c_std] / 2) ** 2 + (blank[c_std] / 2) ** 2) ** 0.5
\* (lines 1098-1099, 1109-1110, 1120-1123): the blank is aligned on WL
SubtractColumn(dfspec, blank, c, c_std) ==
    [i \in 1..Len(dfspec) |->
        [dfspec[i] EXCEPT
           ![c] = NSub(@, At(blank, dfspec[i].WL, c)),
           ![c_std] = NAdd(NDiv(@, RInt(4)),
                           NDiv(At(blank, dfspec[i].WL, c_std), RInt(4)))]]

\* the empty file name
NoFile == <<>>

\* one blank of apply_corr: a file that is not suitable is logged and left
\* out
SubtractBlank(dfspec, blank, cols) ==
    IF blank = NoFile THEN dfspec
    ELSE IF ~is_suitable(dfspec, blank, TRUE) THEN dfspec
    ELSE LET a == IF "AC" \in cols
                  THEN SubtractColumn(dfspec, blank, "AC", "AC_std")
                  ELSE dfspec
         IN  IF "DC" \in cols
             THEN SubtractColumn(a, blank, "DC", "DC_std")
             ELSE a

RECURSIVE dropna(_)
\* DataFrame.dropna(axis=0)
dropna(df) ==
    IF df = <<>> THEN <<>>
    ELSE IF \E c \in Columns : IsNaN(Head(df)[c])
         THEN dropna(Tail(df))
         ELSE <<Head(df)>> \o dropna(Tail(df))

\* interpolate_detcorr, lines 1059-1072, at wavelength wl, for a file that
\* holds wl: the value of its first column there (the detector files of
\* the model hold every wavelength they cover, nothing is interpolated)
interpolate_detcorr(df_det_corr, wl) == At(df_det_corr, wl, "corr")

\* lines 1079-1090: the detector correction divides DC, AC and their
\* standard deviations (kept as squares) by the interpolated value
DivideDetCorr(dfspec, det_corr) ==
    IF det_corr = NoFile THEN dfspec
    ELSE IF ~is_suitable(dfspec, det_corr, FALSE) THEN dfspec
    ELSE [i \in 1..Len(dfspec) |->
            LET v == interpolate_detcorr(det_corr, dfspec[i].WL)
            IN  [dfspec[i] EXCEPT
                   !.DC = NDiv(@, v), !.DC_std = NDiv(@, NSq(v)),
                   !.AC = NDiv(@, v), !.AC_std = NDiv(@, NSq(v))]]

\* an apply_corr that divides by the detector correction after the blanks
apply_corr_det_last(dfspec, ac_blank, dc_blank, base_blank, det_corr, cl) ==
    LET a == SubtractBlank(dfspec, ac_blank, {"AC"})
        d == SubtractBlank(a, dc_blank, {"DC"})
        b == SubtractBlank(d, base_blank, {"AC", "DC"})
        s == DivideDetCorr(b, det_corr)
    IN  [arg |-> s, ret |-> calc_cd(dropna(s), cl)]

\* apply_corr(dfspec, ac_blank, dc_blank, base_blank, det_corr), lines
\* 1076-1133.  The column assignments of lines 1084-1123 change the frame
\* the caller passed in; dropna returns a new frame and calc_cd works on
\* that one.  arg is the caller's frame after the call, ret the result.
apply_corr(dfspec, ac_blank, dc_blank, base_blank, det_corr, cl) ==
    LET s == DivideDetCorr(dfspec, det_corr)
        a == SubtractBlank(s, ac_blank, {"AC"})
        d == SubtractBlank(a, dc_blank, {"DC"})
        b == SubtractBlank(d, base_blank, {"AC", "DC"})
    IN  [arg |-> b, ret |-> calc_cd(dropna(b), cl)]

(***************************************************************************)
(* SpecProc: what record_spec does with the spectrum of each repetition    *)
(* (lines 929-957) in one sweep over the wavelengths ProcWl: save,        *)
(* correct, keep for the average, and average at the end.                  *)
(***************************************************************************)
ProcWl == <<Nm(1), Nm(2)>>
ProcDc == {RInt(2), RInt(4)}
ProcAc == {RInt(1), RInt(3)}
ProcStd == {RInt(4)}
ProcCl == RInt(1)

\* the blank file of the model: a saved spectrum over ProcWl with AC = 1,
\* DC = 1 and no spread
ProcBlank ==
    [i \in 1..Len(ProcWl) |->
        SpecRow(ProcWl[i], RInt(1), Zero, RInt(1), Zero, ProcCl)]
ProcBlanks == {NoFile, ProcBlank}

\* the spectra a repetition can measure (the same signal at every
\* wavelength)
ProcFrames ==
    {[i \in 1..Len(ProcWl) |->
        SpecRow(ProcWl[i], dc, dc_std, ac, RInt(1), ProcCl)] :
        dc \in ProcDc, dc_std \in ProcStd, ac \in ProcAc}

\* start_spec for a request of reps repetitions with the given blank files;
\* base_blank is read from the DC-blank field (line 688)
ProcStartSpec(reps, ac_blank, dc_blank) ==
    /\ pc[1] = "idle"
    /\ enabled.btn_start
    /\ stop_spec_trigger' = FALSE
    /\ acquisition_running' = TRUE
    /\ enabled' = EnabledAfterAcq(TRUE)
    /\ spec_thread' = 1
    /\ req' = [req EXCEPT
                 ![1] = [start |-> ProcWl[1], end |-> ProcWl[2],
                         step |-> Nm(1), reps |-> reps, pem_off |-> FALSE,
                         ac_blank |-> ac_blank, dc_blank |-> dc_blank,
                         base_blank |-> dc_blank]]
    /\ pc' = [pc EXCEPT ![1] = "proc_outer"]
    /\ avg_spec' = <<>>
    /\ dfall_spectra' = <<>>
    /\ ingested' = <<>>
    /\ UNCHANGED <<initialized, cal_running, cal_collecting, stop_osc_trigger,
                   stop_cal_trigger, dialog_open, cal_vars, lock, dev_vars,
                   mon_vars, rep_i, curr_nm, try_j, success, data_ok,
                   curr_spec, mv_vars, gui_vars, faults, obs_vars, saved>>

\* line 777
Correction(r) ==
    r.ac_blank # NoFile \/ r.dc_blank # NoFile \/ r.base_blank # NoFile

\* one repetition that was not aborted, lines 795-945: curr_spec is the
\* measured spectrum; it is saved, corrected when a blank is named, and
\* kept in dfall_spectra[i]
ProcRepetition(spec) ==
    /\ pc[1] = "proc_outer"
    /\ rep_i[1] < req[1].reps
    /\ ~stop_spec_trigger
    /\ LET r == req[1]
           i == rep_i[1]
           dfcurr_spec == spec
           corr == apply_corr(dfcurr_spec, r.ac_blank, r.dc_blank,
                              r.base_blank, NoFile, ProcCl)
       IN  /\ ingested' = Append(ingested, spec)
           /\ saved' = saved \cup {<<"rep", i + 1, dfcurr_spec>>}
                         \cup (IF Correction(r)
                               THEN {<<"rep_corr", i + 1, corr.ret>>}
                               ELSE {})
           /\ dfall_spectra' =
                Append(dfall_spectra,
                       IF Correction(r) THEN corr.arg ELSE dfcurr_spec)
    /\ rep_i' = [rep_i EXCEPT ![1] = @ + 1]
    /\ UNCHANGED <<initialized, acquisition_running, cal_running,
                   cal_collecting, stop_spec_trigger, stop_osc_trigger,
                   stop_cal_trigger, spec_thread, enabled, dialog_open,
                   cal_vars, lock, dev_vars, mon_vars, pc, req, curr_nm,
                   try_j, success, data_ok, curr_spec, mv_vars, gui_vars,
                   faults, obs_vars, avg_spec>>

\* abort_measurement while the sweep runs, seen by the test of line 795
ProcAbort ==
    /\ pc[1] = "proc_outer"
    /\ enabled.btn_abort
    /\ ~stop_spec_trigger
    /\ stop_spec_trigger' = TRUE
    /\ UNCHANGED <<initialized, acquisition_running, cal_running,
                   cal_collecting, stop_osc_trigger, stop_cal_trigger,
                   spec_thread, enabled, dialog_open, cal_vars, proc_vars,
                   lock, dev_vars, mon_vars, wk_vars, mv_vars, gui_vars,
                   faults, obs_vars>>

\* lines 947-957 after the repetition loop
ProcAverage ==
    /\ pc[1] = "proc_outer"
    /\ rep_i[1] >= req[1].reps \/ stop_spec_trigger
    /\ acquisition_running' = FALSE
    /\ enabled' = EnabledAfterAcq(FALSE)
    /\ LET r == req[1]
       IN  IF r.reps > 1 /\ ~stop_spec_trigger
           THEN LET dfavg_spec == df_average_spectra(dfall_spectra, ProcCl)
                    corr == apply_corr(dfavg_spec, r.ac_blank, r.dc_blank,
                                       r.base_blank, NoFile, ProcCl)
                IN  saved' = saved \cup {<<"avg", 0, dfavg_spec>>}
                               \cup (IF Correction(r)
                                     THEN {<<"avg_corr", 0, corr.ret>>}
                                     ELSE {})
           ELSE UNCHANGED saved
    /\ pc' = [pc EXCEPT ![1] = "proc_done"]
    /\ UNCHANGED <<initialized, cal_running, cal_collecting,
                   stop_spec_trigger, stop_osc_trigger, stop_cal_trigger,
                   spec_thread, dialog_open, cal_vars, lock, dev_vars,
                   mon_vars, req, rep_i, curr_nm, try_j, success, data_ok,
                   curr_spec, mv_vars, gui_vars, faults, obs_vars, avg_spec,
                   dfall_spectra, ingested>>

NextProc ==
    \/ \E reps \in 1..MaxReps, ac_blank \in ProcBlanks,
          dc_blank \in ProcBlanks : ProcStartSpec(reps, ac_blank, dc_blank)
    \/ \E spec \in ProcFrames : ProcRepetition(spec)
    \/ ProcAbort
    \/ ProcAverage

SpecProc == Init /\ [][NextProc]_vars

\* the saved average spectrum (a set: empty when none was saved)
SavedAvg == {s[3] : s \in {x \in saved : x[1] = "avg"}}

\* column c of the measured spectra at wavelength wl
MeasuredAt(wl, c) == [k \in 1..Len(ingested) |-> At(ingested[k], wl, c)]

\* C22: the average spectrum is computed if and only if reps > 1 and the
\* abort flag is not set after the repetition loop; its DC and AC are the
\* sums of the DC and AC of the repetitions divided by n, the squares of
\* its DC and AC standard deviations are the sums of (std_i / n) ^ 2, and
\* its derived channels are those calc_cd gives for the averaged DC and AC.
C22_AverageSpectrum ==
    pc[1] = "proc_done" =>
        /\ (SavedAvg # {}) <=> (req[1].reps > 1 /\ ~stop_spec_trigger)
        /\ \A avg \in SavedAvg : \A i \in 1..Len(avg) :
              LET n == Len(ingested)
                  wl == avg[i].WL
                  Q(c) == [k \in 1..n |->
                             RDiv(MeasuredAt(wl, c)[k], RInt(n * n))]
              IN  /\ avg[i].DC = RMean(MeasuredAt(wl, "DC"))
                  /\ avg[i].AC = RMean(MeasuredAt(wl, "AC"))
                  /\ avg[i].DC_std = RSum(Q("DC_std"))
                  /\ avg[i].AC_std = RSum(Q("AC_std"))
                  /\ avg[i] = calc_cd_row(avg[i], ProcCl)

(***************************************************************************)
(* SpecCorr: apply_corr on one measured spectrum over the wavelengths      *)
(* CorrWl, with one blank file named as AC blank, DC blank or base blank.  *)
(***************************************************************************)
CorrWl == <<Nm(1), Nm(2), Nm(3)>>
CorrStd == {RInt(0), RInt(4)}

\* a spectrum saved earlier with the given AC and DC at the wavelengths wls
BlankFile(wls, v) ==
    [i \in 1..Len(wls) |-> SpecRow(wls[i], v, Zero, v, Zero, ProcCl)]

\* blank files: all zero or all one, at every measured wavelength or at the
\* two ends of the measured range only
CorrBlanks ==
    {BlankFile(wls, v) : wls \in {CorrWl, <<CorrWl[1], CorrWl[3]>>},
                         v \in {Zero, RInt(1)}}

CorrFrames ==
    {[i \in 1..Len(CorrWl) |->
        SpecRow(CorrWl[i], dc, dc_std, ac, ac_std, ProcCl)] :
        dc \in ProcDc, dc_std \in CorrStd, ac \in ProcAc, ac_std \in CorrStd}

\* dfcurr_spec_corr = apply_corr(dfcurr_spec, ...), lines 939-941, for a
\* request that names these files
CorrApplyAll(dfspec, ac_blank, dc_blank, base_blank, det_corr) ==
    /\ pc[1] = "idle"
    /\ saved = {}
    /\ LET corr == apply_corr(dfspec, ac_blank, dc_blank, base_blank,
                              det_corr, ProcCl)
       IN  /\ req' = [req EXCEPT
                        ![1] = [start |-> CorrWl[1], end |-> CorrWl[3],
                                step |-> Nm(1), reps |-> 1,
                                pem_off |-> FALSE, ac_blank |-> ac_blank,
                                dc_blank |-> dc_blank,
                                base_blank |-> base_blank,
                                det_corr |-> det_corr]]
           /\ ingested' = <<dfspec>>
           /\ dfall_spectra' = <<corr.arg>>
           /\ saved' = {<<"rep_corr", 1, corr.ret>>}
    /\ UNCHANGED <<initialized, acquisition_running, cal_running,
                   cal_collecting, stop_spec_trigger, stop_osc_trigger,
                   stop_cal_trigger, spec_thread, enabled, dialog_open,
                   cal_vars, lock, dev_vars, mon_vars, pc, rep_i, curr_nm,
                   try_j, success, data_ok, curr_spec, mv_vars, gui_vars,
                   faults, obs_vars, avg_spec>>

\* a request that names one blank, in the field slot
CorrApply(dfspec, blank, slot) ==
    CorrApplyAll(dfspec, IF slot = "ac" THEN blank ELSE NoFile,
                 IF slot = "dc" THEN blank ELSE NoFile,
                 IF slot = "base" THEN blank ELSE NoFile, NoFile)

NextCorr ==
    \E dfspec \in CorrFrames, blank \in CorrBlanks,
       slot \in {"ac", "dc", "base"} : CorrApply(dfspec, blank, slot)

SpecCorr == Init /\ [][NextCorr]_vars

\* the blank files a request names
NamedBlanks(r) == {r.ac_blank, r.dc_blank, r.base_blank} \ {NoFile}

\* the spectrum that was corrected, and the result
CorrIn == ingested[1]
CorrOut == (CHOOSE s \in saved : s[1] = "rep_corr")[3]

ZeroValued(blank) ==
    \A i \in 1..Len(blank) :
        /\ blank[i].AC = Zero /\ blank[i].DC = Zero
        /\ blank[i].AC_std = Zero /\ blank[i].DC_std = Zero

\* C23: a zero-valued blank (AC = 0, DC = 0, stddev = 0 at every measured
\* wavelength) applied through apply_corr leaves the DC and AC of every
\* point as they were, and no standard deviation of the result is larger
\* than it was before the correction.
C23_ZeroBlank ==
    (saved # {} /\ \A b \in NamedBlanks(req[1]) :
                      ZeroValued(b) /\ Index(CorrIn) \subseteq Index(b))
    => /\ Len(CorrOut) = Len(CorrIn)
       /\ \A i \in 1..Len(CorrIn) :
             /\ CorrOut[i].WL = CorrIn[i].WL
             /\ CorrOut[i].DC = CorrIn[i].DC
             /\ CorrOut[i].AC = CorrIn[i].AC
             /\ \A c \in StdColumns : RLeq(CorrOut[i][c], CorrIn[i][c])

\* a spectrum with spread has been corrected with a complete zero blank
C23_Witness ==
    /\ saved # {}
    /\ \A b \in NamedBlanks(req[1]) :
          ZeroValued(b) /\ Index(CorrIn) \subseteq Index(b)
    /\ req[1].base_blank # NoFile
    /\ CorrIn[1].AC_std # Zero
    /\ CorrIn[1].DC_std # Zero

\* a named blank covers the measured range and lacks a measured wavelength
PartialBlank(b) ==
    /\ is_suitable(CorrIn, b, FALSE)
    /\ ~(Index(CorrIn) \subseteq Index(b))

\* C24 as stated: with a blank that covers the measured range but lacks
\* some measured wavelengths, the blank is subtracted at the wavelengths it
\* holds and the other measured rows are dropped from the result.
C24_PartialBlankSubtracted ==
    (saved # {} /\ \A b \in NamedBlanks(req[1]) : PartialBlank(b))
    => \A b \in NamedBlanks(req[1]) :
          /\ Index(CorrOut) = Index(CorrIn) \cap Index(b)
          /\ \A i \in 1..Len(CorrOut) :
                req[1].ac_blank # NoFile
                => CorrOut[i].AC
                     = RSub(At(CorrIn, CorrOut[i].WL, "AC"),
                            At(b, CorrOut[i].WL, "AC"))

\* C24, amended: with a blank that covers the measured range but lacks
\* some measured wavelengths, apply_corr applies nothing of that blank:
\* every measured row is in the result, with the DC, AC and their standard
\* deviations it had before.
C24_PartialBlankSkipped ==
    (saved # {} /\ \A b \in NamedBlanks(req[1]) : PartialBlank(b))
    => /\ Len(CorrOut) = Len(CorrIn)
       /\ \A i \in 1..Len(CorrIn) :
             \A c \in {"WL", "DC", "DC_std", "AC", "AC_std"} :
                 CorrOut[i][c] = CorrIn[i][c]

\* a blank of ones that lacks the middle wavelength was named as AC blank
C24_Witness ==
    /\ saved # {}
    /\ req[1].ac_blank # NoFile
    /\ PartialBlank(req[1].ac_blank)
    /\ ~ZeroValued(req[1].ac_blank)
    /\ Len(CorrOut) = 3

(***************************************************************************)
(* SpecHist: the safety monitor alone over more polls than the history     *)
(* holds.  The first HistQuiet polls read a dark signal; the later ones    *)
(* read no data, a small signal or a signal at the shutdown threshold.     *)
(***************************************************************************)
HistQuiet == 72
HistPolls == 78
HistSamples == IF polls < HistQuiet THEN {0} ELSE {NaNV, 1, HotV}

NextHist ==
    \/ MonLoop
    \/ MonAcq
    \/ MonRead(HistSamples, HistPolls)
    \/ MonPmtAcq
    \/ MonPmtCall
    \/ MonPmtAbort

SpecHist == Init /\ [][NextHist]_vars

\* one pass of lines 1386-1406 has been made
PollMade == mon_pc = "mon_read" /\ polls' = polls + 1

\* C25: the history never holds more than 75 samples, the oldest one being
\* evicted when a 76th is appended; every sample that is not NaN is appended
\* once, at the end, when it is read; a NaN sample is not appended and no
\* hazard is evaluated or handled for it.
C25_BoundedHistory ==
    /\ [](Len(max_volt_history) <= max_volt_hist_length)
    /\ [][IF PollMade
          THEN IF max_volt' # NaNV
               THEN max_volt_history'
                      = (IF Len(max_volt_history) = max_volt_hist_length
                         THEN Tail(max_volt_history)
                         ELSE max_volt_history) \o <<max_volt'>>
               ELSE /\ max_volt_history' = max_volt_history
                    /\ ~range_limit_reached' /\ ~pmt_limit_reached'
                    /\ range_events' = range_events
                    /\ pmt_events' = pmt_events
                    /\ mon_pc' = "mon_loop"
          ELSE max_volt_history' = max_volt_history]_vars

\* a full history that has evicted two dark samples and ends with three
\* samples at the shutdown threshold, after which a NaN sample was read
C25_Witness ==
    /\ Len(max_volt_history) = max_volt_hist_length
    /\ max_volt_history[HistQuiet - 1] # 0
    /\ \A i \in 1..3 : FromEnd(max_volt_history, i) = HotV
    /\ max_volt = NaNV
    /\ mon_pc = "mon_loop"

(***************************************************************************)
(* SpecStop: the safety monitor beside disconnect_devices, with no sweep   *)
(* and no device call that raises.                                         *)
(***************************************************************************)
NextStop ==
    \/ ClickClose \/ DiscPmtCall \/ DiscStop \/ DiscClose
    \/ MonLoop \/ MonAcq \/ MonRead(FaultSamples, MaxPolls)
    \/ MonAutoRangeAcq \/ MonAutoRangeCall \/ MonAutoRangeAbort
    \/ MonPmtAcq \/ MonPmtCall \/ MonPmtAbort
    \/ MonStopAcq \/ MonStopCall

SpecStop == Init /\ [][NextStop]_vars

\* the monitor thread takes a step
MonMoves == mon_pc' # mon_pc

\* C26: once stop_osc_trigger is set the monitor starts no new poll cycle
\* and handles no further hazard after the cycle it is in; it calls
\* stop_scope once, holding the oscilloscope lock, resets the trigger and
\* ends; and the oscilloscope session of the lock-in is not disconnected
\* before stop_scope has been called.
C26_ScopeStoppedBeforeDisconnect ==
    /\ [][(stop_osc_trigger /\ mon_pc = "mon_loop" /\ MonMoves)
          => mon_pc' = "mon_stop_acq"]_vars
    /\ [][(mon_pc = "mon_stop_acq" /\ MonMoves)
          => mon_pc' = "mon_stop_call" /\ lock'["lockin_osc"] = MON]_vars
    /\ [][(mon_pc = "mon_stop_call" /\ MonMoves)
          => /\ lock["lockin_osc"] = MON
             /\ ~stop_osc_trigger'
             /\ mon_pc' = "mon_done"]_vars
    /\ [][mon_pc = "mon_done" => mon_pc' = "mon_done"]_vars
    /\ []("lockin_osc" \notin connected => mon_pc = "mon_done")

(***************************************************************************)
(* Claims about the abort flag inside the loops of record_spec             *)
(***************************************************************************)
\* the positions of record_spec inside the repetition loop, lines 795-944
LoopPcs == {"rs_outer", "rs_inner", "lp_mv_start", "lp_mv_pem_acq",
            "lp_mv_pem_call", "lp_mv_wait", "rs_try", "rs_read_acq",
            "rs_read", "rs_read_done", "rs_check", "rs_append",
            "rs_wait_avg", "rs_after", "rs_pmt_acq", "rs_pmt_call"}

InLoop(w) == pc[w] \in LoopPcs

\* the decisions of lines 795, 818 and 830 to go on
BeginsRepetition(w) == pc[w] = "rs_outer" /\ pc'[w] = "rs_inner"
BeginsMove(w) == pc[w] = "rs_inner" /\ pc'[w] = "lp_mv_start"
BeginsRead(w) == pc[w] = "rs_try" /\ pc'[w] = "rs_read_acq"

\* C27: with the abort flag set a sweep worker decides on no further
\* wavelength move, no further lock-in read and no further repetition, so
\* that at most the move and the read already decided on follow the abort;
\* and the flag, once set while a worker is inside the repetition loop, is
\* not cleared before that worker has left the loop (only the last step of
\* its own record_spec clears it).
C27_AbortNotLost ==
    /\ [][\A w \in Workers :
            stop_spec_trigger
            => ~(BeginsRepetition(w) \/ BeginsMove(w) \/ BeginsRead(w))]_vars
    /\ [][(stop_spec_trigger /\ ~stop_spec_trigger')
          => \A w \in Workers : ~InLoop(w)]_vars

(***************************************************************************)
(* SpecAbort: one sweep beside the safety monitor and the Abort button.    *)
(* The oscilloscope delivers a dark signal or no data.  The sweep worker   *)
(* and its monochromator threads keep running, every device call they     *)
(* make returns; the monitor and the user are under no obligation.         *)
(***************************************************************************)
AbortSamples == {NaNV, 0}

NextAbort ==
    \/ \E r \in FaultRequests : StartSpec(1, r)
    \/ ClickAbort
    \/ ReactivateTimer
    \/ WorkerSteps(1)
    \/ \E m \in {"i", "ii"} : MonoSteps(1, m)
    \/ MonLoop \/ MonAcq \/ MonRead(AbortSamples, MaxPolls)

SpecAbort ==
    /\ Init
    /\ [][NextAbort]_vars
    /\ SF_vars(WorkerSteps(1))
    /\ \A m \in {"i", "ii"} : SF_vars(MonoSteps(1, m))

\* C28: once the abort flag is set the sweep worker finishes record_spec,
\* given only that its own device calls return: no wait of the worker
\* needs a later step of the monitor or of the user.  (Runs in which the
\* monitor has used up the polls of the model are left aside.)
C28_AbortEndsSweep ==
    (stop_spec_trigger /\ Alive(1)) ~> (~Alive(1) \/ polls = MaxPolls)

(***************************************************************************)
(* Claims about the points of a spectrum                                   *)
(***************************************************************************)
\* lines 847-853 append a point
AppendsPoint(w) == pc[w] = "rs_append" /\ pc'[w] = "rs_wait_avg"

\* lines 855-923 have been run for the point
PointProcessed(w) == pc[w] = "rs_wait_avg" /\ pc'[w] # pc[w]

\* C29: a point is appended to the current spectrum only when the abort
\* flag is not set and a read of the lock-in made at that wavelength
\* returned success; it is appended once, with the wavelength the worker
\* has just moved to; and it is handed to add_data_to_avg_spec exactly when
\* reps > 1.
C29_PointAppended ==
    /\ [][\A w \in Workers :
            AppendsPoint(w)
            => /\ ~stop_spec_trigger
               /\ data_ok /\ nreads[w] >= 1
               /\ curr_spec' = Append(curr_spec, curr_nm[w])]_vars
    /\ [][curr_spec' # curr_spec
          => \E w \in Workers :
                \/ AppendsPoint(w)
                \/ BeginsRepetition(w) /\ curr_spec' = <<>>]_vars
    /\ [][\A w \in Workers :
            PointProcessed(w)
            => ingested' = IF req[w].reps > 1
                           THEN Append(ingested, [wl |-> curr_nm[w],
                                                  rep |-> rep_i[w]])
                           ELSE ingested]_vars
    /\ [][ingested' # ingested
          => \E w \in Workers :
                \/ PointProcessed(w)
                \/ pc[w] = "rs_outer" /\ ingested' = <<>>]_vars

(***************************************************************************)
(* Claims about the steps of the calibration wizard                        *)
(***************************************************************************)
\* a handler of the open dialog has run and the dialog is still shown
WizHandled ==
    /\ dialog_open /\ wiz.status = "open"
    /\ dialog_open' /\ wiz'.status = "open"
    /\ <<wiz, dctl>>' # <<wiz, dctl>>
    /\ wiz'.step # wiz.step

SkippedKept ==
    /\ wiz'.skipped_pos_cal = wiz.skipped_pos_cal
    /\ wiz'.skipped_neg_cal = wiz.skipped_neg_cal

\* the two ways the step changes
ByNext == wiz'.step = wiz.step + 1 /\ SkippedKept
BySkip ==
    \/ /\ wiz.step \in {0, 1} /\ wiz'.step = 2
       /\ wiz'.skipped_pos_cal
       /\ wiz'.skipped_neg_cal = wiz.skipped_neg_cal
    \/ /\ wiz.step \in {2, 3} /\ wiz'.step = 4
       /\ wiz'.skipped_neg_cal
       /\ wiz'.skipped_pos_cal = wiz.skipped_pos_cal

\* record thread k is started
RecordStarted(k) == dctl.th[k] = "none" /\ dctl'.th[k] = "started"

Collected ==
    {k \in RecThreads :
        IF k = 1 THEN ~wiz.skipped_pos_cal ELSE ~wiz.skipped_neg_cal}

\* the summary of step 4 is due
SummaryDue == dialog_open /\ wiz.status = "open" /\ wiz.step >= 4

\* C31: the new phase offset is computed from the averages that the record
\* threads of the collected sides have stored: when the summary is shown
\* after a collection, cal_get_new_phaseoffset has been called, and when
\* it has been called the record thread of every side that was not skipped
\* has ended and stored the value read_ac_theta returned.
C31_OffsetFromStoredAverages ==
    /\ [](dctl.called
          => \A k \in RecThreads :
                ~dctl.skipped[k] => dctl.th[k] = "done")
    /\ []((SummaryDue /\ Collected # {}) => dctl.called)

\* the record threads that have been started and have not ended
RecAlive == {k \in RecThreads : dctl.th[k] \in {"started", "locked"}}

\* C32: at most one record thread of the calibration exists at a time, and
\* a record thread that has ended has released the lock of the lock-in
\* (what a stop request must lead to, however quickly the user goes from
\* one collection to the next).
C32_OneRecordWorker ==
    /\ Cardinality(RecAlive) <= 1
    /\ \A k \in RecThreads :
          dctl.th[k] \in {"done", "dead"} => dctl.lock # k

\* C33: the phase offset of the lock-in is written only by the handler of
\* step 5 with the lock of the lock-in free for it to take; and when the
\* calibration session has ended (the dialog is closed) no record thread
\* is left running and cal_running, cal_collecting and the stop flag of
\* the calibration are false.
C33_SessionEnds ==
    /\ [][phaseoffset' # phaseoffset
          => (dialog_open /\ wiz.step = 4 /\ dctl.lock = 0)]_vars
    /\ [](~dialog_open
          => /\ RecAlive = {}
             /\ ~cal_running /\ ~cal_collecting /\ ~stop_cal_trigger
             /\ ~dctl.collecting /\ ~dctl.stop_trigger)

(***************************************************************************)
(* SpecOrder: apply_corr on one measured spectrum with any choice of a     *)
(* detector correction file and of the three blank files.                  *)
(***************************************************************************)
\* detector correction files with the value v in their first column: one
\* over the measured range, one that begins above its first wavelength
DetFile(wls, v) == [i \in 1..Len(wls) |-> [WL |-> wls[i], corr |-> v]]
DetFiles == {NoFile, DetFile(CorrWl, RInt(2)),
             DetFile(<<CorrWl[2], CorrWl[3]>>, RInt(2))}

\* blank files of ones: with every measured wavelength, or without the
\* middle one
OrderBlanks ==
    {NoFile, BlankFile(CorrWl, RInt(1)),
     BlankFile(<<CorrWl[1], CorrWl[3]>>, RInt(1))}

OrderFrames ==
    {[i \in 1..Len(CorrWl) |->
        SpecRow(CorrWl[i], dc, RInt(4), ac, RInt(4), ProcCl)] :
        dc \in ProcDc, ac \in ProcAc}

NextOrder ==
    \E dfspec \in OrderFrames, ac_blank \in OrderBlanks,
       dc_blank \in OrderBlanks, base_blank \in OrderBlanks,
       det_corr \in DetFiles :
        CorrApplyAll(dfspec, ac_blank, dc_blank, base_blank, det_corr)

SpecOrder == Init /\ [][NextOrder]_vars

\* the file is named and holds every measured wavelength
BlankUsed(b) == b # NoFile /\ Index(CorrIn) \subseteq Index(b)

\* the file is named and its wavelengths enclose the measured ones
DetUsed(d) ==
    /\ d # NoFile
    /\ \E i, j \in 1..Len(d) :
          \A k \in 1..Len(CorrIn) :
              d[i].WL <= CorrIn[k].WL /\ CorrIn[k].WL <= d[j].WL

\* what a blank takes off column c at wavelength wl
Taken(b, wl, c) == IF BlankUsed(b) THEN At(b, wl, c) ELSE Zero

\* C34: apply_corr divides DC and AC by the detector correction first and
\* then subtracts the AC blank, the DC blank and the base-reading blank; a
\* file that does not cover the measured range (for a blank: that lacks a
\* measured wavelength) is left out as a whole and the other corrections
\* are applied all the same.
C34_CorrectionOrder ==
    saved # {}
    => /\ Len(CorrOut) = Len(CorrIn)
       /\ \A i \in 1..Len(CorrIn) :
             LET r == req[1]
                 wl == CorrIn[i].WL
                 dc == IF DetUsed(r.det_corr)
                       THEN RDiv(CorrIn[i].DC, At(r.det_corr, wl, "corr"))
                       ELSE CorrIn[i].DC
                 ac == IF DetUsed(r.det_corr)
                       THEN RDiv(CorrIn[i].AC, At(r.det_corr, wl, "corr"))
                       ELSE CorrIn[i].AC
             IN  /\ CorrOut[i].WL = wl
                 /\ CorrOut[i].DC
                      = RSub(RSub(dc, Taken(r.dc_blank, wl, "DC")),
                             Taken(r.base_blank, wl, "DC"))
                 /\ CorrOut[i].AC
                      = RSub(RSub(ac, Taken(r.ac_blank, wl, "AC")),
                             Taken(r.base_blank, wl, "AC"))

\* all four corrections were applied to a spectrum, the AC blank being
\* left out in a second case
C34_Witness ==
    /\ saved # {}
    /\ DetUsed(req[1].det_corr)
    /\ req[1].ac_blank # NoFile /\ ~BlankUsed(req[1].ac_blank)
    /\ BlankUsed(req[1].dc_blank)
    /\ BlankUsed(req[1].base_blank)
    /\ CorrIn[1].DC = RInt(4)
    /\ CorrOut[1].DC = Zero

(***************************************************************************)
(* Claims about the blanks of a sweep                                      *)
(***************************************************************************)
\* the corrected spectra saved by the repetitions of the sweep
SavedCorr == {s \in saved : s[1] = "rep_corr"}

\* C35: for a request that names a DC blank, no AC blank and no base
\* reading (start_spec reads no base-reading field, so every request of
\* the model leaves it empty), the corrected spectrum of a repetition is
\* the measured one with the DC of the blank subtracted once from DC and
\* with AC as measured, and the sweep is given no base-reading blank.
C35_DcBlankOnce ==
    (pc[1] \in {"proc_outer", "proc_done"}
     /\ req[1].dc_blank # NoFile /\ req[1].ac_blank = NoFile)
    => /\ req[1].base_blank = NoFile
       /\ \A s \in SavedCorr :
             \A i \in 1..Len(s[3]) :
                LET wl == s[3][i].WL
                    measured == ingested[s[2]]
                IN  /\ s[3][i].DC = RSub(At(measured, wl, "DC"),
                                         At(req[1].dc_blank, wl, "DC"))
                    /\ s[3][i].AC = At(measured, wl, "AC")

(***************************************************************************)
(* SpecDrop: add_data_to_avg_spec fed with a repetition 0 that holds some  *)
(* of the wavelengths DropWl, each once and in the order of the sweep, and *)
(* with later repetitions that hand in any of them.                        *)
(***************************************************************************)
DropWl == {300, 301, 302}
MaxIngest == 5

\* the next repetition begins (line 944)
DropNextRep ==
    /\ rep_i[1] < MaxReps - 1
    /\ avg_spec # <<>>
    /\ rep_i' = [rep_i EXCEPT ![1] = @ + 1]
    /\ UNCHANGED <<initialized, acquisition_running, cal_running,
                   cal_collecting, stop_spec_trigger, stop_osc_trigger,
                   stop_cal_trigger, spec_thread, enabled, lock, dev_vars,
                   mon_vars, pc, req, curr_nm, try_j, success, data_ok,
                   curr_spec, mv_vars, gui_vars, faults, obs_vars, cal_vars,
                   dialog_open, proc_vars>>

\* lines 919-920 for the point d of repetition rep_i
DropIngest(wl, ac) ==
    /\ Len(ingested) < MaxIngest
    /\ rep_i[1] = 0 => \A i \in 1..Len(avg_spec) : avg_spec[i][1] < wl
    /\ LET d == DataWithWl(wl, RInt(2), ac)
       IN  avg_spec' = add_data_to_avg_spec(avg_spec, d, rep_i[1], RInt(1))
    /\ ingested' = Append(ingested, [wl |-> wl, rep |-> rep_i[1]])
    /\ UNCHANGED <<non_proc, cal_vars, dialog_open, dfall_spectra, saved>>

NextDrop ==
    \/ DropNextRep
    \/ \E wl \in DropWl, ac \in AccAc : DropIngest(wl, ac)

SpecDrop == Init /\ [][NextDrop]_vars

\* the wavelengths handed in during repetition 0
FirstRepWl == {ingested[i].wl : i \in {j \in 1..Len(ingested) :
                                          ingested[j].rep = 0}}

\* C36: a point of a repetition after the first whose wavelength has no
\* row in the averaged spectrum leaves that spectrum as it is; rows are
\* added in repetition 0 only; the wavelengths of the averaged spectrum
\* are those handed in during repetition 0, one row each.
C36_NoMatchDropped ==
    /\ [][(ingested' # ingested /\ rep_i[1] >= 1
           /\ ingested'[Len(ingested')].wl
                \notin {avg_spec[i][1] : i \in 1..Len(avg_spec)})
          => avg_spec' = avg_spec]_vars
    /\ [][Len(avg_spec') # Len(avg_spec)
          => (rep_i[1] = 0 /\ Len(avg_spec') = Len(avg_spec) + 1)]_vars
    /\ []({avg_spec[i][1] : i \in 1..Len(avg_spec)} = FirstRepWl)
    /\ [](\A i, j \in 1..Len(avg_spec) :
             avg_spec[i][1] = avg_spec[j][1] => i = j)

\* a point of repetition 1 at a wavelength that repetition 0 left out has
\* been handed in
C36_Witness ==
    /\ Len(ingested) >= 3
    /\ ingested[Len(ingested)].rep = 1
    /\ ingested[Len(ingested)].wl = 301
    /\ FirstRepWl = {300, 302}
    /\ Len(avg_spec) = 2

\* C37: every wavelength the sweep moves the optical path to in its
\* wavelength loop (line 822) lies between start_nm and end_nm, both
\* included.
C37_MovesWithinRange ==
    \A w \in Workers :
        pc[w] = "lp_mv_start"
        => \/ req[w].start <= curr_nm[w] /\ curr_nm[w] <= req[w].end
           \/ req[w].end <= curr_nm[w] /\ curr_nm[w] <= req[w].start

\* the thread that holds the lock of device d is waiting to acquire it
SelfAcquire(d) ==
    d = "lockin_daq" /\ lock[d] = GUI /\ gui_pc = "cbx_self_acq"

\* C38: set_auto_range never makes the holder of the lock-in acquisition
\* lock acquire it again, the change handler of the range combo box
\* included, so that the lock is released when set_auto_range has written
\* the new range.
C38_AutoRangeReleases ==
    /\ [](~SelfAcquire("lockin_daq"))
    /\ [][gui_pc = "ar_call" /\ gui_pc' # "ar_call"
          => lock'["lockin_daq"] # GUI]_vars

(***************************************************************************)
(* SpecPmt: the PMT voltage and gain fields of the signal tuning panel;    *)
(* every device call succeeds.  A gain g is kept as 1000 * log10(g *       *)
(* gain_norm), in whole thousandths of a decade and at least 0, with       *)
(* NonPosGain for the gains <= 0 and NaNGain for float('nan'); voltages    *)
(* are in mV, with NaNVolt for float('nan').                               *)
(***************************************************************************)
\* lines 52-53, times 1000
pmt_slope == 4913
pmt_offset == 1222
\* the smallest kept gains with g >= 1.0 (1000 * log10(4775) = 3678.97) and
\* with g > max_gain (1000 * log10(885.6 * 4775) = 6626.2)
LogUnitGain == 3679
LogAboveMaxGain == 6627

\* float(text) of lines 500 and 508 for the texts that are no number of mV
\* or have no logarithm
NaNVolt == 100000
NaNGain == -2
NonPosGain == -1

\* what the fields edt_pmt and edt_gain can hold
VoltTexts == {NaNVolt, -100, -1, 0, 550, 1100, 1101, 2000}
GainNumbers ==
    {NonPosGain, 3000, 3678, 6626, 6627, 9000}
        \cup {LogUnitGain + 300 * k : k \in 0..9}
GainTexts == GainNumbers \cup {NaNGain}

\* a gain_to_volt without the branch for the gains from max_gain on and
\* without the clamp
gain_to_volt_raw(gain) ==
    IF gain = NonPosGain \/ gain < LogUnitGain
    THEN 0
    ELSE ((gain - pmt_offset) * 1000) \div pmt_slope

\* gain_to_volt, lines 1311-1317
gain_to_volt(gain) ==
    IF gain = NonPosGain \/ gain < LogUnitGain
    THEN 0
    ELSE IF gain >= LogAboveMaxGain
         THEN 1100
         ELSE LET v == ((gain - pmt_offset) * 1000) \div pmt_slope
                  m == IF v < 1100 THEN v ELSE 1100
              IN  Max2(m, 0)

\* set_PMT_voltage(volt) up to the acquire of line 1321
GuiPmtAcq(volt) ==
    /\ GuiFree
    /\ lock["lockin_daq"] = Free
    /\ lock' = [lock EXCEPT !["lockin_daq"] = GUI]
    /\ gui_arg' = volt
    /\ gui_pc' = "pmt_call"
    /\ UNCHANGED <<ctrl_vars, dev_vars, mon_vars, wk_vars, mv_vars,
                   reactivate_timer, cbx_pending, faults, obs_vars>>

\* set_PMT_volt_from_edt, lines 498-504: float('nan') fails both
\* comparisons
SetPmtVoltFromEdt(t) ==
    /\ t # NaNVolt
    /\ 0 <= t /\ t <= 1100
    /\ GuiPmtAcq(t)

\* set_gain_from_edt, lines 506-512: float('nan') <= max_gain is False
SetGainFromEdt(g) ==
    /\ g # NaNGain
    /\ g = NonPosGain \/ g < LogAboveMaxGain
    /\ GuiPmtAcq(gain_to_volt(g))

EdtPmtCall == GuiPmtCall("pmt_call", "idle")

NextPmt ==
    \/ \E t \in VoltTexts : SetPmtVoltFromEdt(t)
    \/ \E g \in GainTexts : SetGainFromEdt(g)
    \/ EdtPmtCall

SpecPmt == Init /\ [][NextPmt]_vars

\* C39: the PMT control voltage kept by the lock-in is within
\* [pmt_low_limit, pmt_high_limit] after every sequence of voltage and gain
\* settings; a set_PMT_voltage outside the limits leaves the voltage as it
\* is; gain_to_volt returns a voltage within the limits for every gain.
C39_PmtVoltWithinLimits ==
    /\ pmt_low_limit <= pmt_volt /\ pmt_volt <= pmt_high_limit
    /\ \A v \in VoltTexts \ {NaNVolt} :
          (v < pmt_low_limit \/ v > pmt_high_limit)
          => PmtAfterSet(v) = pmt_volt
    /\ \A g \in GainNumbers :
          pmt_low_limit <= gain_to_volt(g) /\ gain_to_volt(g) <= pmt_high_limit

\* the voltage has been set from the largest gain the gain field accepts
C39_Witness ==
    /\ gui_pc = "idle"
    /\ pmt_volt = gain_to_volt(6626)
    /\ pmt_volt > 1000
    /\ lock["lockin_daq"] = Free

====
